---- MODULE Spec2Model ----
(***************************************************************************)
(* Task lifecycle and worker routing of asynq-hub: the worker registry,    *)
(* the task / attempt ledger, the enqueue / replay / batch-retry engine    *)
(* and the broker's uniqueness lock.  The HTTP surface exists twice in the *)
(* repository: inline in NewRouter (internal/server/router.go, the one     *)
(* cmd/server wires) and as TaskHandler methods                            *)
(* (internal/server/handler/task_handler.go).  Both are modelled; a        *)
(* behaviour uses one of them throughout (variable impl).                  *)
(*                                                                         *)
(* Strings are sequences of one-character strings, so that the regular     *)
(* expressions of the validation middleware and the concatenations that    *)
(* build queue names are computed and not assumed.                         *)
(***************************************************************************)
EXTENDS Integers, Sequences, FiniteSets, Bags, TLC

VARIABLES
    impl,        \* "router" (NewRouter closures) or "handler" (TaskHandler)
    items,       \* workers.Store.items : worker_name -> Config
    tasks,       \* table task        : task_id -> row
    attempts,    \* table task_attempt: bag of rows (row |-> number of copies)
    enqueued,    \* broker: sequence of accepted submissions
    locks,       \* broker: uniqueness locks, unique key -> expiry (hours)
    clock,       \* wall clock, hours
    genCount,    \* number of task ids NewTaskID has produced
    subscribed,  \* queues the SDK worker's asynq servers consume
    resp,        \* response of the last call
    ops,         \* number of calls made so far
    baseURL,     \* sdk.Worker.baseURL is set (the reporter is enabled)
    servers,     \* sdk.Worker.queueGroups: group name -> state of its asynq server
    run,         \* sdk.Worker.Run: where it is, and the error it returns
    inv,         \* the handler wrapper's invocation in progress
    call,        \* a call of ReportWithRetry: its inputs and its result
    hb,          \* sdk.HeartbeatManager: its flags, its ticker, the heartbeats sent
    workerRows,  \* table worker (WorkerRepo): worker_name -> row
    got,         \* what the last registry call returned: a config, a list
    beat,        \* the heartbeat request between its Get and its Upsert
    mux,         \* sdk.Worker: the handlers of its ServeMuxes, the last dispatch
    flight,      \* worker requests between Store.Upsert and WorkerRepo.Upsert
    heap         \* which slice each registry row shares, and who else holds it

vars == <<impl, items, tasks, attempts, enqueued, locks, clock, genCount,
          subscribed, resp, ops, baseURL, servers, run, inv, call, hb,
          workerRows, got, beat, mux, flight, heap>>

\* The state of the SDK worker process
sdkVars == <<baseURL, servers, run, inv, call, hb>>

\* The worker table and the worker endpoints' results
registryVars == <<workerRows, got, beat>>

\* The state of the parts that are specified on their own
extraVars == <<mux, flight, heap>>

-----------------------------------------------------------------------------
(* Bounds of the model *)

MaxOps == 4
MaxGen == 2
MaxClock == 24
MaxAttemptNo == 2
MaxInvocations == 2
NoCancel == 999
MaxTicks == 3

(* Program constants *)

MaxPayloadSize == 2097152
UniqueTTLHours == 24
HalfTTL == UniqueTTLHours \div 2
DefaultMaxRetries == 3
DefaultInitialBackoff == 1
DefaultMaxBackoff == 30
DefaultBackoffFactor == 2

-----------------------------------------------------------------------------
(* Characters and strings *)

Lower == {"a","b","c","d","e","f","g","h","i","j","k","l","m",
          "n","o","p","q","r","s","t","u","v","w","x","y","z"}
Upper == {"A","B","C","D","E","F","G","H","I","J","K","L","M",
          "N","O","P","Q","R","S","T","U","V","W","X","Y","Z"}
Digit == {"0","1","2","3","4","5","6","7","8","9"}

Rep(c, n) == [i \in 1..n |-> c]

MatchClass(s, class, lo, hi) ==
    /\ Len(s) >= lo
    /\ Len(s) <= hi
    /\ \A i \in 1..Len(s) : s[i] \in class

\* The character classes [a-zA-Z0-9_-] and [a-zA-Z0-9-]
NameChars == Lower \cup Upper \cup Digit \cup {"_", "-"}
TaskIDChars == Lower \cup Upper \cup Digit \cup {"-"}

\* ^[a-zA-Z0-9_-]{3,64}$
WorkerNameRegex(s) == MatchClass(s, NameChars, 3, 64)

\* ^[a-zA-Z0-9_-]{1,64}$
QueueNameRegex(s) == MatchClass(s, NameChars, 1, 64)

\* ^[a-zA-Z0-9-]{1,128}$
TaskIDRegex(s) == MatchClass(s, TaskIDChars, 1, 128)

ValidateWorkerName(workerName) == WorkerNameRegex(workerName)
ValidateQueueName(queueName) == QueueNameRegex(queueName)
ValidateTaskID(taskID) == TaskIDRegex(taskID)

\* middleware.ValidateTaskIDParam: TRUE when the request passes on
ValidateTaskIDParam(taskID) == taskID # <<>> /\ ValidateTaskID(taskID)

-----------------------------------------------------------------------------
(* Input universe *)

W1 == <<"w","k","1">>
W2 == <<"w","k","2">>
WShort == <<"a","b">>
WBadChar == <<"w",":","1">>
WLong == Rep("a", 65)

Q1 == <<"q","1">>
Q2 == <<"q","2">>
QBadChar == <<"q",":","x">>

T1 == <<"t","-","1">>
TBadChar == <<"t","_","1">>

PriorityCritical == <<"c","r","i","t","i","c","a","l">>
PriorityDefault == <<"d","e","f","a","u","l","t">>
PriorityLow == <<"l","o","w">>

DefaultPriorities ==
    (PriorityCritical :> 50) @@ (PriorityDefault :> 30) @@ (PriorityLow :> 10)

\* json.RawMessage: the bytes are abstracted to a tag and their length
P1 == [data |-> "p1", len |-> 7]
P2 == [data |-> "p2", len |-> 7]
PMax == [data |-> "max", len |-> MaxPayloadSize]
PBig == [data |-> "big", len |-> MaxPayloadSize + 1]
NoPayload == [data |-> "", len |-> 0]

E1 == <<"e","r","r">>

CallerTaskIDs == {T1}

HexDigits == <<"1","2","3","4","5","6","7","8","9","a","b","c","d","e","f">>

\* asynqx.NewTaskID: 16 random bytes in hex (32 characters).  The random
\* source is modelled by the number of ids drawn so far, i.e. as collision
\* free among the ids this process generates.
NewTaskID(n) == [i \in 1..32 |-> IF i = 32 THEN HexDigits[n] ELSE "0"]

GenTaskIDs == {NewTaskID(n) : n \in 1..MaxGen}
TaskIDs == CallerTaskIDs \cup GenTaskIDs

-----------------------------------------------------------------------------
(* Routing keys *)

Colon == <<":">>

\* sdk Worker.fullQueueName / workers.Config.FullQueueName:
\* fmt.Sprintf("%s:%s:%s", workerName, queueGroup, priority)
fullQueueName(workerName, queueGroup, priority) ==
    workerName \o Colon \o queueGroup \o Colon \o priority

\* CreateTask: fullQueue := req.WorkerName + ":" + req.Queue
fullQueue(workerName, queue) == workerName \o Colon \o queue

-----------------------------------------------------------------------------
(* Worker registry (workers.Store) *)

Put(m, k, v) == (k :> v) @@ m
Remove(m, k) == [x \in DOMAIN m \ {k} |-> m[x]]

\* strings.TrimSpace (of the white space, the inputs hold the blank only)
TrimSpace(s) ==
    LET idx == {i \in 1..Len(s) : s[i] # " "}
    IN  IF idx = {} THEN <<>>
        ELSE SubSeq(s, CHOOSE i \in idx : \A j \in idx : i <= j,
                       CHOOSE i \in idx : \A j \in idx : j <= i)

\* An Upsert that stores a group's concurrency as it was given
GroupDefaultsKeepsConcurrency(qg) ==
    [Name |-> qg.Name,
     Concurrency |-> qg.Concurrency,
     Priorities |-> IF DOMAIN qg.Priorities = {} THEN DefaultPriorities
                    ELSE qg.Priorities]

\* Store.Upsert, the defaults of one queue group
GroupDefaults(qg) ==
    [Name |-> qg.Name,
     Concurrency |-> IF qg.Concurrency <= 0 THEN 10 ELSE qg.Concurrency,
     Priorities |-> IF DOMAIN qg.Priorities = {} THEN DefaultPriorities
                    ELSE qg.Priorities]

\* An Upsert that does not look at the names of the queue groups
UpsertErrorSkipsGroupName(c) ==
    IF TrimSpace(c.WorkerName) = <<>> THEN "worker_name"
    ELSE IF Len(c.QueueGroups) = 0 THEN "queue_groups"
    ELSE ""

\* Store.Upsert, validation: "" when the config is accepted
UpsertError(c) ==
    IF TrimSpace(c.WorkerName) = <<>> THEN "worker_name"
    ELSE IF Len(c.QueueGroups) = 0 THEN "queue_groups"
    ELSE IF \E i \in 1..Len(c.QueueGroups) : c.QueueGroups[i].Name = <<>>
         THEN "queue_group name"
    ELSE ""

\* Store.Upsert, the config that is stored and returned
UpsertDefaults(c) ==
    [c EXCEPT !.WorkerName = TrimSpace(@),
              !.QueueGroups = [i \in 1..Len(c.QueueGroups) |-> GroupDefaults(c.QueueGroups[i])],
              !.DefaultRetryCount = IF c.DefaultRetryCount <= 0 THEN 3 ELSE c.DefaultRetryCount,
              !.DefaultTimeout = IF c.DefaultTimeout <= 0 THEN 30 ELSE c.DefaultTimeout,
              !.DefaultDelay = IF c.DefaultDelay < 0 THEN 0 ELSE c.DefaultDelay]

\* An Upsert that writes the new fields over the row it finds and keeps the
\* queue groups that row had
StoreRowKeepsGroups(tbl, c) ==
    IF c.WorkerName \in DOMAIN tbl
    THEN [tbl EXCEPT ![c.WorkerName] = [c EXCEPT !.QueueGroups = tbl[c.WorkerName].QueueGroups]]
    ELSE Put(tbl, c.WorkerName, c)

\* Store.Upsert, under s.mu.Lock(): s.items[c.WorkerName] = c
StoreRow(tbl, c) == Put(tbl, c.WorkerName, c)

\* Config.HasQueueGroup
HasQueueGroup(c, queueGroupName) ==
    \E i \in 1..Len(c.QueueGroups) : c.QueueGroups[i].Name = queueGroupName

\* Store.HasQueue
HasQueue(workerName, queueGroupName) ==
    /\ workerName \in DOMAIN items
    /\ HasQueueGroup(items[workerName], queueGroupName)

\* The configurations operators register in this model
ConfigInputs ==
    {[WorkerName |-> w,
      QueueGroups |-> <<[Name |-> Q1, Concurrency |-> 0, Priorities |-> <<>>]>>,
      DefaultRetryCount |-> 0, DefaultTimeout |-> 0, DefaultDelay |-> 0,
      IsEnabled |-> en, LastHeartbeatAt |-> -1]
     : w \in {W1}, en \in BOOLEAN}
    \cup {[WorkerName |-> W2,
           QueueGroups |-> <<[Name |-> Q1, Concurrency |-> 0, Priorities |-> <<>>]>>,
           DefaultRetryCount |-> 0, DefaultTimeout |-> 0, DefaultDelay |-> 0,
           IsEnabled |-> TRUE, LastHeartbeatAt |-> -1]}

-----------------------------------------------------------------------------
(* Metadata store: tables task and task_attempt (TaskRepo) *)

\* TaskRepo.UpsertTask: insert ... on conflict (task_id) do update set queue,
\* priority, payload, status, last_attempt, last_error, last_worker_name.
\* worker_name and created_at of an existing row are kept.
UpsertTask(tbl, t) ==
    IF t.task_id \in DOMAIN tbl
    THEN [tbl EXCEPT ![t.task_id] =
             [@ EXCEPT !.queue = t.queue, !.priority = t.priority,
                       !.payload = t.payload, !.status = t.status,
                       !.last_attempt = t.last_attempt,
                       !.last_error = t.last_error,
                       !.last_worker_name = t.last_worker_name]]
    ELSE Put(tbl, t.task_id, [t EXCEPT !.created_at = Cardinality(DOMAIN tbl) + 1])

\* TaskRepo.UpdateTaskStatus: update task set status, last_attempt,
\* last_error, last_worker_name where task_id = $1 (no row: no change)
UpdateTaskStatus(tbl, taskID, status, lastAttempt, lastError, lastWorkerName) ==
    IF taskID \in DOMAIN tbl
    THEN [tbl EXCEPT ![taskID] =
             [@ EXCEPT !.status = status, !.last_attempt = lastAttempt,
                       !.last_error = lastError,
                       !.last_worker_name = lastWorkerName]]
    ELSE tbl

\* TaskRepo.InsertAttempt: one more row, none replaced (rows differ by their
\* serial id, which the bag stands for)
InsertAttempt(log, a) == log (+) SetToBag({a})

\* repository.Task as the handlers build it for a new task
NewTaskRow(taskID, workerName, queue, priority, payload) ==
    [task_id |-> taskID, worker_name |-> workerName, queue |-> queue,
     priority |-> priority, payload |-> payload, status |-> "pending",
     last_attempt |-> 0, last_error |-> <<>>, last_worker_name |-> <<>>,
     created_at |-> 0]

-----------------------------------------------------------------------------
(* Broker: asynq.Client.Enqueue with the options asynqx.EnqueueOptions builds *)

\* json.Marshal(struct{ID, TaskID, Payload}): the message carries the id
\* twice and the payload bytes
Marshal(taskID, payload) == [id |-> taskID, task_id |-> taskID, payload |-> payload]

\* asynqx.EnqueueOptions: an option is present only under its condition;
\* Unique(24h) whenever TaskKey is not empty.  The task key itself is not
\* handed to the broker.
EnqueueOptions(p) ==
    [Queue |-> IF p.Queue # <<>> THEN p.Queue ELSE PriorityDefault,
     MaxRetry |-> IF p.MaxRetry > 0 THEN p.MaxRetry ELSE 25,
     Timeout |-> IF p.TimeoutSeconds > 0 THEN p.TimeoutSeconds ELSE 0,
     ProcessIn |-> IF p.DelaySeconds > 0 THEN p.DelaySeconds ELSE 0,
     Unique |-> IF p.TaskKey # <<>> THEN UniqueTTLHours ELSE 0]

\* asynq's uniqueness lock: one per (queue, task type, payload bytes)
UniqueKey(opts, typ, b) == <<opts.Queue, typ, b>>

\* TRUE when asynq answers ErrDuplicateTask: the lock is held and not expired
Duplicate(lk, opts, typ, b) ==
    /\ opts.Unique > 0
    /\ UniqueKey(opts, typ, b) \in DOMAIN lk
    /\ lk[UniqueKey(opts, typ, b)] > clock

\* State of the broker after Enqueue(NewTask(typ, b), opts...).  up = FALSE
\* is a transport failure.  The result carries ok (err == nil).
Enqueue(q, lk, typ, b, opts, up) ==
    IF ~up \/ Duplicate(lk, opts, typ, b)
    THEN [ok |-> FALSE, q |-> q, lk |-> lk]
    ELSE [ok |-> TRUE,
          q |-> Append(q, [queue |-> opts.Queue, typ |-> typ, payload |-> b,
                           max_retry |-> opts.MaxRetry, timeout |-> opts.Timeout,
                           at |-> clock]),
          lk |-> IF opts.Unique > 0
                 THEN Put(lk, UniqueKey(opts, typ, b), clock + opts.Unique)
                 ELSE lk]

-----------------------------------------------------------------------------
(* POST /tasks *)

\* Well-formed requests
ValidCreateTaskInputs ==
    {[worker_name |-> W1, queue |-> q, task_id |-> T1, payload |-> p, priority |-> PriorityLow]
        : q \in {Q1, Q2}, p \in {P1, P2}}
    \cup {[worker_name |-> w, queue |-> Q1, task_id |-> <<>>, payload |-> P1,
           priority |-> PriorityCritical] : w \in {W1, W2}}

\* One request per way of being malformed, and one at the size limit
InvalidCreateTaskInputs ==
    {[worker_name |-> w, queue |-> Q1, task_id |-> T1, payload |-> P1,
      priority |-> PriorityLow] : w \in {WShort, WBadChar, WLong, <<>>}}
    \cup {[worker_name |-> W1, queue |-> q, task_id |-> T1, payload |-> P1,
           priority |-> PriorityLow] : q \in {QBadChar, <<>>}}
    \cup {[worker_name |-> W1, queue |-> Q1, task_id |-> TBadChar, payload |-> P1,
           priority |-> PriorityLow]}
    \cup {[worker_name |-> W1, queue |-> Q1, task_id |-> T1, payload |-> p,
           priority |-> PriorityLow] : p \in {PMax, PBig, NoPayload}}

CreateTaskInputs == ValidCreateTaskInputs \cup InvalidCreateTaskInputs

\* middleware.PayloadSizeLimit: c.Request.ContentLength > maxSize.  The body
\* holds the payload and at least the field names; ContentLength is -1 for a
\* chunked request.
ContentLength(req, chunked) == IF chunked THEN -1 ELSE req.payload.len + 1
PayloadSizeLimit(req, chunked) == ContentLength(req, chunked) > MaxPayloadSize

\* ShouldBindJSON with binding:"required" on worker_name, queue, payload
BindCreateTask(req) ==
    req.worker_name # <<>> /\ req.queue # <<>> /\ req.payload.len > 0

\* The format and size checks of CreateTask, in the order of the code:
\* the status code of the first failing check, 0 when all pass
CreateTaskValidate(req) ==
    IF ~BindCreateTask(req) THEN 400
    ELSE IF ~ValidateWorkerName(req.worker_name) THEN 400
    ELSE IF ~ValidateQueueName(req.queue) THEN 400
    ELSE IF req.task_id # <<>> /\ ~ValidateTaskID(req.task_id) THEN 400
    ELSE IF req.payload.len > MaxPayloadSize THEN 400
    ELSE 0

\* Routing that forgets the worker's enabled flag
CreateTaskRouteSkipsEnabled(req) ==
    IF req.worker_name \notin DOMAIN items THEN 400
    ELSE IF ~HasQueue(req.worker_name, req.queue) THEN 400
    ELSE 0

\* The registry checks of CreateTask
CreateTaskRoute(req) ==
    IF req.worker_name \notin DOMAIN items THEN 400
    ELSE IF ~items[req.worker_name].IsEnabled THEN 400
    ELSE IF ~HasQueue(req.worker_name, req.queue) THEN 400
    ELSE 0

\* The response of a call: operation, status code, ids of the tasks created,
\* ids reported as failed, and the number of Enqueue calls it made
Resp(op, code, ids, failed, calls) ==
    [op |-> op, code |-> code, ids |-> ids, failed |-> failed, calls |-> calls]

\* Body of CreateTask after the checks: id, message, enqueue, task row
CreateTaskAccepted(op, req, brokerUp, storeOk) ==
    LET taskID == IF req.task_id = <<>> THEN NewTaskID(genCount + 1) ELSE req.task_id
        workerCfg == items[req.worker_name]
        fq == fullQueue(req.worker_name, req.queue)
        b == Marshal(taskID, req.payload)
        p == [TaskType |-> fq, TaskKey |-> taskID, Queue |-> fq,
              MaxRetry |-> workerCfg.DefaultRetryCount,
              TimeoutSeconds |-> workerCfg.DefaultTimeout,
              DelaySeconds |-> 0]
        r == Enqueue(enqueued, locks, fq, b, EnqueueOptions(p), brokerUp)
    IN  /\ req.task_id = <<>> => genCount < MaxGen
        /\ genCount' = IF req.task_id = <<>> THEN genCount + 1 ELSE genCount
        /\ enqueued' = r.q
        /\ locks' = r.lk
        /\ tasks' = IF r.ok /\ storeOk
                    THEN UpsertTask(tasks, NewTaskRow(taskID, req.worker_name, fq, 0, req.payload))
                    ELSE tasks
        /\ resp' = Resp(op, IF r.ok THEN 200 ELSE 500,
                        IF r.ok THEN <<taskID>> ELSE <<>>, <<>>, 1)
        /\ UNCHANGED <<impl, items, attempts, clock, subscribed>>

\* The step budget of a run
Budget == ops < MaxOps /\ ops' = ops + 1

Rejected(op, code) ==
    /\ resp' = Resp(op, code, <<>>, <<>>, 0)
    /\ UNCHANGED <<impl, items, tasks, attempts, enqueued, locks, clock,
                   genCount, subscribed>>

\* NewRouter: api.POST("/tasks", ...) behind the global middleware
RouterCreateTask(req, chunked, brokerUp, storeOk) ==
    /\ Budget
    /\ impl = "router"
    /\ IF PayloadSizeLimit(req, chunked) THEN Rejected("CreateTask", 413)
       ELSE IF CreateTaskValidate(req) # 0
            THEN Rejected("CreateTask", CreateTaskValidate(req))
       ELSE IF CreateTaskRoute(req) # 0
            THEN Rejected("CreateTask", CreateTaskRoute(req))
       ELSE CreateTaskAccepted("CreateTask", req, brokerUp, storeOk)

\* TaskHandler.CreateTask
HandlerCreateTask(req, brokerUp, storeOk) ==
    /\ Budget
    /\ impl = "handler"
    /\ IF CreateTaskValidate(req) # 0
            THEN Rejected("CreateTask", CreateTaskValidate(req))
       ELSE IF CreateTaskRoute(req) # 0
            THEN Rejected("CreateTask", CreateTaskRoute(req))
       ELSE CreateTaskAccepted("CreateTask", req, brokerUp, storeOk)

-----------------------------------------------------------------------------
(* POST /tasks/:task_id/replay *)

ReplayInputs == TaskIDs \cup {TBadChar}

\* A replay that submits the new message but writes the pending row back
\* under the source's id instead of the new one
ReplayResurrects(op, taskID, t, workerCfg, brokerUp, storeOk) ==
    LET newTaskID == NewTaskID(genCount + 1)
        b == Marshal(newTaskID, t.payload)
        p == [TaskType |-> t.queue, TaskKey |-> newTaskID, Queue |-> t.queue,
              MaxRetry |-> workerCfg.DefaultRetryCount,
              TimeoutSeconds |-> workerCfg.DefaultTimeout,
              DelaySeconds |-> 0]
        r == Enqueue(enqueued, locks, t.queue, b, EnqueueOptions(p), brokerUp)
    IN  /\ genCount < MaxGen
        /\ genCount' = genCount + 1
        /\ enqueued' = r.q
        /\ locks' = r.lk
        /\ tasks' = IF r.ok /\ storeOk
                    THEN UpsertTask(tasks, NewTaskRow(taskID, t.worker_name, t.queue,
                                                      t.priority, t.payload))
                    ELSE tasks
        /\ resp' = Resp(op, IF r.ok THEN 200 ELSE 500,
                        IF r.ok THEN <<newTaskID>> ELSE <<>>, <<>>, 1)
        /\ UNCHANGED <<impl, items, attempts, clock, subscribed>>

\* Body shared by both replays once the source row t and the worker config
\* are at hand: new id, message, enqueue to t.queue, new task row
ReplayAccepted(op, taskID, t, workerCfg, brokerUp, storeOk) ==
    LET newTaskID == NewTaskID(genCount + 1)
        b == Marshal(newTaskID, t.payload)
        p == [TaskType |-> t.queue, TaskKey |-> newTaskID, Queue |-> t.queue,
              MaxRetry |-> workerCfg.DefaultRetryCount,
              TimeoutSeconds |-> workerCfg.DefaultTimeout,
              DelaySeconds |-> 0]
        r == Enqueue(enqueued, locks, t.queue, b, EnqueueOptions(p), brokerUp)
    IN  /\ genCount < MaxGen
        /\ genCount' = genCount + 1
        /\ enqueued' = r.q
        /\ locks' = r.lk
        /\ tasks' = IF r.ok /\ storeOk
                    THEN UpsertTask(tasks, NewTaskRow(newTaskID, t.worker_name, t.queue,
                                                      t.priority, t.payload))
                    ELSE tasks
        /\ resp' = Resp(op, IF r.ok THEN 200 ELSE 500,
                        IF r.ok THEN <<newTaskID>> ELSE <<>>, <<>>, 1)
        /\ UNCHANGED <<impl, items, attempts, clock, subscribed>>

\* TaskHandler.ReplayTask: only a finished task (success / fail) is replayed
ReplayStatusOK(t) == t.status = "success" \/ t.status = "fail"

\* NewRouter: api.POST("/tasks/:task_id/replay", ValidateTaskIDParam(), ...)
RouterReplayTask(taskID, brokerUp, storeOk) ==
    /\ Budget
    /\ impl = "router"
    /\ IF ~ValidateTaskIDParam(taskID) THEN Rejected("ReplayTask", 400)
       ELSE IF taskID \notin DOMAIN tasks THEN Rejected("ReplayTask", 404)
       ELSE IF tasks[taskID].worker_name \notin DOMAIN items
               \/ ~items[tasks[taskID].worker_name].IsEnabled
            THEN Rejected("ReplayTask", 400)
       ELSE ReplayAccepted("ReplayTask", taskID, tasks[taskID],
                           items[tasks[taskID].worker_name], brokerUp, storeOk)

\* TaskHandler.ReplayTask
HandlerReplayTask(taskID, brokerUp, storeOk) ==
    /\ Budget
    /\ impl = "handler"
    /\ IF taskID \notin DOMAIN tasks THEN Rejected("ReplayTask", 404)
       ELSE IF ~ReplayStatusOK(tasks[taskID]) THEN Rejected("ReplayTask", 400)
       ELSE IF tasks[taskID].worker_name \notin DOMAIN items
            THEN Rejected("ReplayTask", 400)
       ELSE ReplayAccepted("ReplayTask", taskID, tasks[taskID],
                           items[tasks[taskID].worker_name], brokerUp, storeOk)

-----------------------------------------------------------------------------
(* POST /tasks/:task_id/report-attempt *)

\* Reports: every status and attempt number for the caller's task, and the
\* two final reports of a first attempt for a generated one
ValidReportInputs ==
    {[task_id |-> T1, attempt |-> n, status |-> st,
      error |-> IF st \in {"fail", "dead"} THEN E1 ELSE <<>>, worker_name |-> W1]
        : n \in 1..MaxAttemptNo, st \in {"running", "success", "fail", "dead"}}
    \cup {[task_id |-> NewTaskID(1), attempt |-> 1, status |-> st,
           error |-> IF st = "fail" THEN E1 ELSE <<>>, worker_name |-> W2]
            : st \in {"success", "fail"}}

\* One report per way of being malformed
InvalidReportInputs ==
    {[task_id |-> T1, attempt |-> 1, status |-> st, error |-> <<>>, worker_name |-> W1]
        : st \in {"pending", "bogus", ""}}
    \cup {[task_id |-> T1, attempt |-> 0, status |-> "success", error |-> <<>>,
           worker_name |-> W1],
          [task_id |-> TBadChar, attempt |-> 1, status |-> "success", error |-> <<>>,
           worker_name |-> W1]}

ReportInputs == ValidReportInputs \cup InvalidReportInputs

\* model.TaskStatus.Valid
Valid(s) == s \in {"pending", "running", "success", "fail", "dead"}

\* ShouldBindJSON with binding:"required" on attempt and status
BindReport(req) == req.attempt # 0 /\ req.status # ""

\* NewRouter: api.POST("/tasks/:task_id/report-attempt", ValidateTaskIDParam(), ...)
\* The attempt row is inserted, then UpdateTaskStatus is called for every
\* accepted status and its error is dropped.
RouterReportAttempt(req, insertOk, updateOk) ==
    /\ Budget
    /\ impl = "router"
    /\ IF ~ValidateTaskIDParam(req.task_id) THEN Rejected("ReportAttempt", 400)
       ELSE IF ~BindReport(req) THEN Rejected("ReportAttempt", 400)
       ELSE IF ~Valid(req.status) \/ req.status = "pending"
            THEN Rejected("ReportAttempt", 400)
       ELSE IF ~insertOk THEN Rejected("ReportAttempt", 500)
       ELSE /\ attempts' = InsertAttempt(attempts,
                   [task_id |-> req.task_id, attempt |-> req.attempt,
                    status |-> req.status, error |-> req.error,
                    worker_name |-> req.worker_name])
            /\ tasks' = IF updateOk
                        THEN UpdateTaskStatus(tasks, req.task_id, req.status, req.attempt,
                                              req.error, req.worker_name)
                        ELSE tasks
            /\ resp' = Resp("ReportAttempt", 200, <<>>, <<>>, 0)
            /\ UNCHANGED <<impl, items, enqueued, locks, clock, genCount, subscribed>>

\* TaskHandler.ReportAttempt, the switch on req.Status
HandlerStatusOK(status) == status \in {"running", "success", "fail"}

\* TaskHandler.ReportAttempt, the task row written back after a terminal report
HandlerReportedTask(task, req) ==
    [task EXCEPT !.status = req.status, !.last_attempt = req.attempt]

\* TaskHandler.ReportAttempt
HandlerReportAttempt(req, insertOk, updateOk) ==
    /\ Budget
    /\ impl = "handler"
    /\ IF ~BindReport(req) THEN Rejected("ReportAttempt", 400)
       ELSE IF req.task_id \notin DOMAIN tasks THEN Rejected("ReportAttempt", 404)
       ELSE IF ~HandlerStatusOK(req.status) THEN Rejected("ReportAttempt", 400)
       ELSE IF ~insertOk THEN Rejected("ReportAttempt", 500)
       ELSE /\ attempts' = InsertAttempt(attempts,
                   [task_id |-> req.task_id, attempt |-> req.attempt,
                    status |-> req.status, error |-> req.error,
                    worker_name |-> <<>>])
            /\ tasks' = IF req.status \in {"success", "fail"} /\ updateOk
                        THEN UpsertTask(tasks, HandlerReportedTask(tasks[req.task_id], req))
                        ELSE tasks
            /\ resp' = Resp("ReportAttempt",
                            IF req.status \in {"success", "fail"} /\ ~updateOk
                            THEN 500 ELSE 200, <<>>, <<>>, 0)
            /\ UNCHANGED <<impl, items, enqueued, locks, clock, genCount, subscribed>>

-----------------------------------------------------------------------------
(* POST /tasks/batch-retry *)

Min(a, b) == IF a < b THEN a ELSE b

\* TaskRepo.ListTasks: the rows matching the filter, newest first, cut at
\* the limit ("limit <= 0 || limit > 200" falls back to 50)
ListTasks(tbl, f) ==
    LET limit == IF f.Limit <= 0 \/ f.Limit > 200 THEN 50 ELSE f.Limit
        n == Cardinality(DOMAIN tbl)
        desc == [i \in 1..n |-> CHOOSE id \in DOMAIN tbl : tbl[id].created_at = n + 1 - i]
        Match(id) == /\ f.WorkerName = <<>> \/ tbl[id].worker_name = f.WorkerName
                     /\ f.Status = "" \/ tbl[id].status = f.Status
        hit == SelectSeq(desc, Match)
    IN  [i \in 1..Min(limit, Len(hit)) |-> tbl[hit[i]]]

BatchRetryInputs ==
    {[worker_name |-> <<>>, status |-> "", task_ids |-> ids, limit |-> 0]
        : ids \in {<<T1>>, <<NewTaskID(1)>>, <<T1, NewTaskID(1)>>}}
    \cup {[worker_name |-> <<>>, status |-> "", task_ids |-> <<>>, limit |-> 0],
          [worker_name |-> W1, status |-> "fail", task_ids |-> <<>>, limit |-> 0],
          [worker_name |-> <<>>, status |-> "success", task_ids |-> <<>>, limit |-> 1],
          [worker_name |-> <<>>, status |-> "pending", task_ids |-> <<>>, limit |-> 1001]}

\* One candidate of the loop: a fresh id, the message, the submission
\* (fails = the broker refuses this one), the new row.  st is the state the
\* loop carries: ids drawn, broker, table, results.
RetryOne(st, t, workerCfg, fails, storeOk) ==
    LET newTaskID == NewTaskID(st.gen + 1)
        b == Marshal(newTaskID, t.payload)
        p == [TaskType |-> t.queue, TaskKey |-> newTaskID, Queue |-> t.queue,
              MaxRetry |-> workerCfg.DefaultRetryCount,
              TimeoutSeconds |-> workerCfg.DefaultTimeout,
              DelaySeconds |-> 0]
        r == Enqueue(st.q, st.lk, t.queue, b, EnqueueOptions(p), ~fails)
    IN  IF ~r.ok
        THEN [st EXCEPT !.gen = @ + 1, !.calls = @ + 1,
                        !.failed = Append(@, t.task_id)]
        ELSE [st EXCEPT !.gen = @ + 1, !.calls = @ + 1, !.q = r.q, !.lk = r.lk,
                        !.tbl = IF storeOk
                                THEN UpsertTask(@, NewTaskRow(newTaskID, t.worker_name,
                                                   t.queue, t.priority, t.payload))
                                ELSE @,
                        !.ids = Append(@, newTaskID)]

\* NewRouter batch-retry, the body of "for _, task := range tasks" for the
\* i-th candidate: one whose worker is missing or disabled is recorded as
\* failed
RouterRetryStep(t, i, st, failAt, storeOk) ==
    IF t.worker_name \notin DOMAIN items \/ ~items[t.worker_name].IsEnabled
    THEN [st EXCEPT !.failed = Append(@, t.task_id)]
    ELSE RetryOne(st, t, items[t.worker_name], i \in failAt, storeOk)

\* The iterations lo..hi of the loop, in order.  The range is split in
\* halves and the first half is evaluated before the second (the test on
\* half.calls, true of every loop state: at most one broker call per
\* candidate), which keeps the evaluation depth logarithmic in hi - lo.
RECURSIVE RouterRetryRange(_, _, _, _, _, _)
RouterRetryRange(cands, lo, hi, st, failAt, storeOk) ==
    IF lo > hi THEN st
    ELSE IF lo = hi THEN RouterRetryStep(cands[lo], lo, st, failAt, storeOk)
    ELSE LET mid == (lo + hi) \div 2
             half == RouterRetryRange(cands, lo, mid, st, failAt, storeOk)
         IN  IF half.calls <= mid
             THEN RouterRetryRange(cands, mid + 1, hi, half, failAt, storeOk)
             ELSE half

\* NewRouter batch-retry, "for _, task := range tasks" from candidate i on
RouterRetryLoop(cands, i, st, failAt, storeOk) ==
    RouterRetryRange(cands, i, Len(cands), st, failAt, storeOk)

\* TaskHandler.BatchRetry, the body of "for _, oldTaskID := range taskIDs"
\* for the i-th id: a candidate that cannot be read, has no worker or is
\* refused is skipped (continue)
HandlerRetryStep(id, i, st, failAt, storeOk) ==
    IF id \notin DOMAIN st.tbl THEN st
    ELSE IF st.tbl[id].worker_name \notin DOMAIN items THEN st
    ELSE [RetryOne(st, st.tbl[id], items[st.tbl[id].worker_name],
                   i \in failAt, storeOk)
          EXCEPT !.failed = st.failed]

\* The iterations lo..hi of the loop, in order, split as in RouterRetryRange
RECURSIVE HandlerRetryRange(_, _, _, _, _, _)
HandlerRetryRange(taskIDs, lo, hi, st, failAt, storeOk) ==
    IF lo > hi THEN st
    ELSE IF lo = hi THEN HandlerRetryStep(taskIDs[lo], lo, st, failAt, storeOk)
    ELSE LET mid == (lo + hi) \div 2
             half == HandlerRetryRange(taskIDs, lo, mid, st, failAt, storeOk)
         IN  IF half.calls <= mid
             THEN HandlerRetryRange(taskIDs, mid + 1, hi, half, failAt, storeOk)
             ELSE half

\* TaskHandler.BatchRetry, "for _, oldTaskID := range taskIDs" from id i on
HandlerRetryLoop(taskIDs, i, st, failAt, storeOk) ==
    HandlerRetryRange(taskIDs, i, Len(taskIDs), st, failAt, storeOk)

LoopStart ==
    [gen |-> genCount, q |-> enqueued, lk |-> locks, tbl |-> tasks,
     ids |-> <<>>, failed |-> <<>>, calls |-> 0]

BatchRetryDone(st) ==
    /\ st.gen <= MaxGen
    /\ genCount' = st.gen
    /\ enqueued' = st.q
    /\ locks' = st.lk
    /\ tasks' = st.tbl
    /\ resp' = Resp("BatchRetry", 200, st.ids, st.failed, st.calls)
    /\ UNCHANGED <<impl, items, attempts, clock, subscribed>>

\* NewRouter: api.POST("/tasks/batch-retry", ...): status defaults to
\* "fail", limit to 100; candidates are the rows found for task_ids, or the
\* rows ListTasks returns
RouterBatchCandidates(req) ==
    LET status == IF req.status = "" THEN "fail" ELSE req.status
        limit == IF req.limit <= 0 \/ req.limit > 1000 THEN 100 ELSE req.limit
        found == SelectSeq(req.task_ids, LAMBDA id : id \in DOMAIN tasks)
    IN  IF Len(req.task_ids) > 0
        THEN [i \in 1..Len(found) |-> tasks[found[i]]]
        ELSE ListTasks(tasks, [WorkerName |-> req.worker_name, Status |-> status,
                               Limit |-> limit])

RouterBatchRetry(req, failAt, storeOk) ==
    /\ Budget
    /\ impl = "router"
    /\ BatchRetryDone(RouterRetryLoop(RouterBatchCandidates(req), 1, LoopStart,
                                           failAt, storeOk))

\* TaskHandler.BatchRetry: limit defaults to 100, status is passed as given;
\* candidates are req.TaskIDs, or the ids of the rows ListTasks returns
HandlerBatchCandidates(req) ==
    LET limit == IF req.limit <= 0 \/ req.limit > 1000 THEN 100 ELSE req.limit
        rows == ListTasks(tasks, [WorkerName |-> req.worker_name, Status |-> req.status,
                                  Limit |-> limit])
    IN  IF Len(req.task_ids) > 0 THEN req.task_ids
        ELSE [i \in 1..Len(rows) |-> rows[i].task_id]

HandlerBatchRetry(req, failAt, storeOk) ==
    /\ Budget
    /\ impl = "handler"
    /\ BatchRetryDone(HandlerRetryLoop(HandlerBatchCandidates(req), 1, LoopStart,
                                            failAt, storeOk))

-----------------------------------------------------------------------------
(* Registry operations, SDK worker start, time *)

\* Store.Upsert
Upsert(c) ==
    /\ Budget
    /\ items' = IF UpsertError(c) = ""
                THEN StoreRow(items, UpsertDefaults(c))
                ELSE items
    /\ resp' = Resp("Upsert", IF UpsertError(c) = "" THEN 200 ELSE 400, <<>>, <<>>, 0)
    /\ UNCHANGED <<impl, tasks, attempts, enqueued, locks, clock, genCount, subscribed>>

\* Store.Delete: an operation of the registry that no HTTP route calls; a
\* task whose worker is gone is what a restart without that worker row leaves
Delete(workerName) ==
    /\ Budget
    /\ items' = IF workerName \in DOMAIN items THEN Remove(items, workerName) ELSE items
    /\ resp' = Resp("Delete", IF workerName \in DOMAIN items THEN 200 ELSE 404,
                    <<>>, <<>>, 0)
    /\ UNCHANGED <<impl, tasks, attempts, enqueued, locks, clock, genCount, subscribed>>

\* sdk.New with WithQueueGroups: one asynq server per queue group, consuming
\* fullQueueName(group, priority) for every priority of the group
New(workerName, groups) ==
    {fullQueueName(workerName, GroupDefaults(groups[i]).Name, pr)
        : <<i, pr>> \in {<<j, q>> \in (1..Len(groups)) \X {PriorityCritical, PriorityDefault,
                                                          PriorityLow}
                            : q \in DOMAIN GroupDefaults(groups[j]).Priorities}}

\* Time passes
Tick ==
    /\ Budget
    /\ clock + HalfTTL <= MaxClock
    /\ clock' = clock + HalfTTL
    /\ resp' = Resp("Tick", 0, <<>>, <<>>, 0)
    /\ UNCHANGED <<impl, items, tasks, attempts, enqueued, locks, genCount, subscribed>>

-----------------------------------------------------------------------------
(* The SDK worker process before it has served anything *)

\* The queue groups the worker was built with (WithQueueGroups)
Groups == {Q1, Q2}

\* Worker.Run serving: every group's server is up, no stop was triggered
Serving == [pc |-> "serving", left |-> {}, err |-> "none", errChan |-> <<>>]

\* No message is being handled
NoInvocation ==
    [pc |-> "idle", group |-> <<>>, task_id |-> <<>>, retryCount |-> 0,
     executed |-> FALSE, result |-> "none", sent |-> <<>>, ret |-> "none", count |-> 0]

\* ReportWithRetry is not being called
NoCall == [config |-> [MaxRetries |-> 0, InitialBackoff |-> 0, MaxBackoff |-> 0,
                       BackoffFactor |-> 0],
           outcomes |-> <<>>, cancelAt |-> NoCancel, timerFirst |-> FALSE,
           err |-> [kind |-> "none", cause |-> 0], calls |-> 0, waits |-> <<>>]

\* Config{}, the zero value Store.Get and Store.Upsert return with an error
NoConfig ==
    [WorkerName |-> <<>>, QueueGroups |-> <<>>, DefaultRetryCount |-> 0,
     DefaultTimeout |-> 0, DefaultDelay |-> 0, IsEnabled |-> FALSE, LastHeartbeatAt |-> -1]

\* No registry call was made yet
NoResult == [item |-> NoConfig, items |-> <<>>]

\* No heartbeat request is between its Get and its Upsert
NoBeat == [pc |-> "none", config |-> NoConfig]

\* NewHeartbeatManager: not started, not stopped, no ticker yet.  ctx is the
\* context Start is given, tick the tick waiting in ticker.C, fired the
\* number of ticks the ticker has produced, sends the heartbeats requested
\* (ok: the control plane answered 200; late: after Stop or the cancellation)
NewHeartbeatManager ==
    [pc |-> "new", stopped |-> FALSE, ctx |-> "live", tick |-> 0, fired |-> 0,
     sends |-> <<>>]

\* No handler is registered and nothing was dispatched
NoHandlers == [handlers |-> <<>>, served |-> [type |-> <<>>, fn |-> "none"]]

\* The parts that are specified on their own, before anything happened in them
\* No worker request is between its two writes, none has failed
NoFlight == [pending |-> {}, failed |-> FALSE]

\* The backing arrays of the QueueGroups slices: ref the array of each row of
\* the registry, held the arrays some caller has a slice of or a pointer into,
\* next the array the next allocation gets.  The rows loaded at start have
\* arrays of their own, which no caller holds.
Unshared == [ref |-> (W1 :> 1) @@ (W2 :> 2), held |-> {}, next |-> 3]

ExtraIdle == mux = NoHandlers /\ flight = NoFlight /\ heap = Unshared

-----------------------------------------------------------------------------
(* Specifications *)

\* cmd/server main: the registry starts with the worker rows of the store
Persisted ==
    (W1 :> UpsertDefaults(CHOOSE c \in ConfigInputs : c.WorkerName = W1 /\ c.IsEnabled))
    @@ (W2 :> UpsertDefaults(CHOOSE c \in ConfigInputs : c.WorkerName = W2 /\ c.IsEnabled))

Init ==
    /\ impl \in {"router", "handler"}
    /\ items = Persisted
    /\ tasks = <<>>
    /\ attempts = EmptyBag
    /\ enqueued = <<>>
    /\ locks = <<>>
    /\ clock = 0
    /\ genCount = 0
    /\ subscribed = UNION {New(w, Persisted[w].QueueGroups) : w \in DOMAIN Persisted}
    /\ resp = Resp("", 0, <<>>, <<>>, 0)
    /\ ops = 0
    /\ baseURL = TRUE
    /\ servers = [g \in Groups |-> "running"]
    /\ run = Serving
    /\ inv = NoInvocation
    /\ call = NoCall
    /\ hb = NewHeartbeatManager
    /\ workerRows = Persisted
    /\ got = NoResult
    /\ beat = NoBeat
    /\ ExtraIdle

\* What the environment does to a call: the broker is down, a store write
\* fails (at most one of them per call)
Faults == {<<TRUE, TRUE>>, <<FALSE, TRUE>>, <<TRUE, FALSE>>}
BatchFaults == {<<{}, TRUE>>, <<{1}, TRUE>>, <<{2}, TRUE>>, <<{}, FALSE>>}

\* The control plane serving requests; the SDK worker process is not involved
Next ==
    \/ \E c \in ConfigInputs : Upsert(c)
            /\ UNCHANGED <<sdkVars, registryVars, extraVars>>
    \/ \E w \in {W1, W2} : Delete(w)
            /\ UNCHANGED <<sdkVars, registryVars, extraVars>>
    \/ \E req \in ValidCreateTaskInputs, f \in Faults :
            RouterCreateTask(req, FALSE, f[1], f[2])
            /\ UNCHANGED <<sdkVars, registryVars, extraVars>>
    \/ \E req \in InvalidCreateTaskInputs, chunked \in BOOLEAN :
            RouterCreateTask(req, chunked, TRUE, TRUE)
            /\ UNCHANGED <<sdkVars, registryVars, extraVars>>
    \/ \E req \in ValidCreateTaskInputs, f \in Faults : HandlerCreateTask(req, f[1], f[2])
            /\ UNCHANGED <<sdkVars, registryVars, extraVars>>
    \/ \E req \in InvalidCreateTaskInputs : HandlerCreateTask(req, TRUE, TRUE)
            /\ UNCHANGED <<sdkVars, registryVars, extraVars>>
    \/ \E id \in ReplayInputs, f \in Faults : RouterReplayTask(id, f[1], f[2])
            /\ UNCHANGED <<sdkVars, registryVars, extraVars>>
    \/ \E id \in ReplayInputs, f \in Faults : HandlerReplayTask(id, f[1], f[2])
            /\ UNCHANGED <<sdkVars, registryVars, extraVars>>
    \/ \E req \in ValidReportInputs, f \in Faults : RouterReportAttempt(req, f[1], f[2])
            /\ UNCHANGED <<sdkVars, registryVars, extraVars>>
    \/ \E req \in InvalidReportInputs : RouterReportAttempt(req, TRUE, TRUE)
            /\ UNCHANGED <<sdkVars, registryVars, extraVars>>
    \/ \E req \in ValidReportInputs, f \in Faults : HandlerReportAttempt(req, f[1], f[2])
            /\ UNCHANGED <<sdkVars, registryVars, extraVars>>
    \/ \E req \in InvalidReportInputs : HandlerReportAttempt(req, TRUE, TRUE)
            /\ UNCHANGED <<sdkVars, registryVars, extraVars>>
    \/ \E req \in BatchRetryInputs, f \in BatchFaults : RouterBatchRetry(req, f[1], f[2])
            /\ UNCHANGED <<sdkVars, registryVars, extraVars>>
    \/ \E req \in BatchRetryInputs, f \in BatchFaults : HandlerBatchRetry(req, f[1], f[2])
            /\ UNCHANGED <<sdkVars, registryVars, extraVars>>
    \/ Tick /\ UNCHANGED <<sdkVars, registryVars, extraVars>>

Spec == Init /\ [][Next]_vars

-----------------------------------------------------------------------------
(* The endpoints, as served by whichever implementation is wired *)

CreateTask(req, chunked, brokerUp, storeOk) ==
    RouterCreateTask(req, chunked, brokerUp, storeOk) \/ HandlerCreateTask(req, brokerUp, storeOk)

ReplayTask(taskID, brokerUp, storeOk) ==
    RouterReplayTask(taskID, brokerUp, storeOk) \/ HandlerReplayTask(taskID, brokerUp, storeOk)

ReportAttempt(req, insertOk, updateOk) ==
    RouterReportAttempt(req, insertOk, updateOk) \/ HandlerReportAttempt(req, insertOk, updateOk)

BatchRetry(req, failAt, storeOk) ==
    RouterBatchRetry(req, failAt, storeOk) \/ HandlerBatchRetry(req, failAt, storeOk)

-----------------------------------------------------------------------------
(* The SDK worker runtime: the handler wrapper, Run and shutdown *)

\* The state of the control plane, the store and the broker
serverVars == <<impl, items, tasks, attempts, enqueued, locks, clock, genCount,
                subscribed, resp, ops, workerRows, got, beat>>

\* registerHandler: the task id is read from the message body: task_id,
\* else id, else the broker's own id of the message
ParseTaskID(b, asynqID) ==
    IF b.task_id # <<>> THEN b.task_id
    ELSE IF b.id # <<>> THEN b.id
    ELSE asynqID

\* A wrapper that reports the broker's retry counter as it is
AttemptNoIsRetryCount(retryCount) == retryCount

\* registerHandler: attemptNo := retryCount + 1
AttemptNo(retryCount) == retryCount + 1

\* A wrapper that hands a failed report to the broker as the task's failure
WrapperReturnsReportError(result, sent) ==
    IF \E i \in 1..Len(sent) : sent[i].err THEN "err" ELSE result

\* registerHandler: return err, the value fn returned
WrapperReturn(result, sent) == result

\* What can happen to one report on its way: the request is lost in
\* transport, or the control plane serves it with a store that works or not
\* (delivered, insertOk, updateOk)
ReportOutcomes == {<<FALSE, TRUE, TRUE>>} \cup {<<TRUE, f[1], f[2]>> : f \in Faults}

\* The broker's processor calls the wrapper registered for group g with the
\* message CreateTask marshalled.  The broker delivers the task again after
\* each failed delivery, with its retry counter one higher, and not after a
\* delivery that returned nil.
Deliver(g, retryCount) ==
    /\ inv.pc = "idle"
    /\ inv.count < MaxInvocations
    /\ inv.ret # "nil"
    /\ retryCount = inv.count
    /\ servers[g] = "running"
    /\ inv' = [pc |-> "report_running", group |-> g,
               task_id |-> ParseTaskID(Marshal(T1, P1), T1),
               retryCount |-> retryCount, executed |-> FALSE, result |-> "none",
               sent |-> <<>>, ret |-> "none", count |-> inv.count + 1]
    /\ UNCHANGED <<baseURL, servers, run, call, hb>>
    /\ UNCHANGED <<serverVars, extraVars>>

\* Reporter.ReportAttempt as the wrapper calls it (_ = w.reporter.ReportAttempt):
\* nothing is sent without a control-plane URL; otherwise one POST, whose
\* error is dropped.  inv.sent lists the requests sent, err is the error
\* ReportAttempt returned.
ReporterReportAttempt(status, o, pc, ret) ==
    LET req == [task_id |-> inv.task_id, attempt |-> AttemptNo(inv.retryCount),
                status |-> status,
                error |-> IF status = "fail" THEN E1 ELSE <<>>,
                worker_name |-> W1]
        rec(err) == [status |-> req.status, attempt |-> req.attempt,
                     error |-> req.error, err |-> err]
    IN  IF ~baseURL
        THEN /\ ~o[1]
             /\ inv' = [inv EXCEPT !.pc = pc, !.ret = ret]
             /\ UNCHANGED <<serverVars, extraVars>>
        ELSE IF ~o[1]
        THEN /\ inv' = [inv EXCEPT !.pc = pc, !.ret = ret,
                                   !.sent = Append(@, rec(TRUE))]
             /\ UNCHANGED <<serverVars, extraVars>>
        ELSE /\ ReportAttempt(req, o[2], o[3])
             /\ UNCHANGED <<registryVars, extraVars>>
             /\ inv' = [inv EXCEPT !.pc = pc, !.ret = ret,
                                   !.sent = Append(@, rec(resp'.code >= 400))]

\* registerHandler: the running report before fn
ReportRunning(o) ==
    /\ inv.pc = "report_running"
    /\ ReporterReportAttempt("running", o, "handler", "none")
    /\ UNCHANGED <<baseURL, servers, run, call, hb>>

\* registerHandler: err := fn(ctx, t).  fn returns nil, returns an error, or
\* panics; the wrapper has no recover, so a panic leaves it at once
Execute(result) ==
    /\ inv.pc = "handler"
    /\ inv' = [inv EXCEPT !.executed = TRUE, !.result = result,
                          !.pc = IF result = "panic" THEN "return" ELSE "report_terminal",
                          !.ret = IF result = "panic" THEN "panic" ELSE @]
    /\ UNCHANGED <<baseURL, servers, run, call, hb>>
    /\ UNCHANGED <<serverVars, extraVars>>

\* registerHandler: the terminal report after fn, then return err
ReportTerminal(o) ==
    /\ inv.pc = "report_terminal"
    /\ ReporterReportAttempt(IF inv.result = "nil" THEN "success" ELSE "fail", o,
                             "return", WrapperReturn(inv.result, inv.sent))
    /\ UNCHANGED <<baseURL, servers, run, call, hb>>

\* The wrapper has returned: the broker's processor is free again
Return ==
    /\ inv.pc = "return"
    /\ inv' = [inv EXCEPT !.pc = "idle"]
    /\ UNCHANGED <<baseURL, servers, run, call, hb>>
    /\ UNCHANGED <<serverVars, extraVars>>

\* An error channel without a buffer
errChanUnbuffered(groups) == 0

\* Worker.Run: errChan := make(chan error, len(w.queueGroups))
errChanCap(groups) == Cardinality(groups)

\* Worker.Run: case <-ctx.Done() (SIGINT or SIGTERM): shutdown, return nil
Signal ==
    /\ run.pc = "serving"
    /\ run' = [run EXCEPT !.pc = "shutdown", !.left = Groups, !.err = "nil"]
    /\ UNCHANGED <<baseURL, servers, inv, call, hb>>
    /\ UNCHANGED <<serverVars, extraVars>>

\* The goroutine of group g: qg.Server.Run returns an error, while Run is
\* serving or while it shuts down
ServerError(g) ==
    /\ run.pc \in {"serving", "shutdown"}
    /\ servers[g] = "running"
    /\ inv.pc = "idle" \/ inv.group # g
    /\ servers' = [servers EXCEPT ![g] = "erred"]
    /\ UNCHANGED <<baseURL, run, inv, call, hb>>
    /\ UNCHANGED <<serverVars, extraVars>>

\* The goroutine of group g: errChan <- err, possible when the buffer has
\* room or when Run waits in its select with nothing to receive yet; the
\* goroutine is done after it
SendError(g) ==
    /\ servers[g] = "erred"
    /\ \/ Len(run.errChan) < errChanCap(Groups)
       \/ run.pc = "serving" /\ run.errChan = <<>>
    /\ servers' = [servers EXCEPT ![g] = "failed"]
    /\ run' = [run EXCEPT !.errChan = Append(@, g)]
    /\ UNCHANGED <<baseURL, inv, call, hb>>
    /\ UNCHANGED <<serverVars, extraVars>>

\* Worker.Run: case err := <-errChan: shutdown, return err
ReceiveError ==
    /\ run.pc = "serving"
    /\ run.errChan # <<>>
    /\ run' = [pc |-> "shutdown", left |-> Groups, err |-> "err",
               errChan |-> Tail(run.errChan)]
    /\ UNCHANGED <<baseURL, servers, inv, call, hb>>
    /\ UNCHANGED <<serverVars, extraVars>>

\* Worker.shutdown: for name, qg := range w.queueGroups { qg.Server.Shutdown() }
\* One group after the other, in the order the map yields them; Shutdown
\* returns when the group's handler in progress has returned.
ShutdownOne(g) ==
    /\ run.pc = "shutdown"
    /\ g \in run.left
    /\ inv.pc = "idle" \/ inv.group # g
    /\ servers' = [servers EXCEPT ![g] = IF @ = "running" THEN "closed" ELSE @]
    /\ run' = [run EXCEPT !.left = @ \ {g}]
    /\ UNCHANGED <<baseURL, inv, call, hb>>
    /\ UNCHANGED <<serverVars, extraVars>>

\* Worker.Run: wg.Wait() after shutdown, which returns when every
\* goroutine is done, then return
RunReturn ==
    /\ run.pc = "shutdown"
    /\ run.left = {}
    /\ \A g \in Groups : servers[g] \in {"failed", "closed"}
    /\ run' = [run EXCEPT !.pc = "returned"]
    /\ UNCHANGED <<baseURL, servers, inv, call, hb>>
    /\ UNCHANGED <<serverVars, extraVars>>

\* A worker process serving task t-1, which CreateTask has accepted for wk1
WorkerInit ==
    /\ impl \in {"router", "handler"}
    /\ items = Persisted
    /\ clock = 0
    /\ LET fq == fullQueue(W1, Q1)
           p == [TaskType |-> fq, TaskKey |-> T1, Queue |-> fq,
                 MaxRetry |-> Persisted[W1].DefaultRetryCount,
                 TimeoutSeconds |-> Persisted[W1].DefaultTimeout,
                 DelaySeconds |-> 0]
           r == Enqueue(<<>>, <<>>, fq, Marshal(T1, P1), EnqueueOptions(p), TRUE)
       IN  /\ enqueued = r.q
           /\ locks = r.lk
           /\ tasks = UpsertTask(<<>>, NewTaskRow(T1, W1, fq, 0, P1))
    /\ attempts = EmptyBag
    /\ genCount = 0
    /\ subscribed = UNION {New(w, Persisted[w].QueueGroups) : w \in DOMAIN Persisted}
    /\ resp = Resp("CreateTask", 200, <<T1>>, <<>>, 1)
    /\ ops = 0
    /\ baseURL \in BOOLEAN
    /\ servers = [g \in Groups |-> "running"]
    /\ run = Serving
    /\ inv = NoInvocation
    /\ call = NoCall
    /\ hb = NewHeartbeatManager
    /\ workerRows = Persisted
    /\ got = NoResult
    /\ beat = NoBeat
    /\ ExtraIdle

WorkerNext ==
    \/ \E g \in Groups, n \in 0..(MaxInvocations - 1) : Deliver(g, n)
    \/ \E o \in ReportOutcomes : ReportRunning(o)
    \/ \E result \in {"nil", "err", "panic"} : Execute(result)
    \/ \E o \in ReportOutcomes : ReportTerminal(o)
    \/ Return
    \/ Signal
    \/ \E g \in Groups : ServerError(g)
    \/ \E g \in Groups : SendError(g)
    \/ ReceiveError
    \/ \E g \in Groups : ShutdownOne(g)
    \/ RunReturn

WorkerSpec == WorkerInit /\ [][WorkerNext]_vars

\* The scheduler runs every goroutine that can take a step: the handler in
\* progress goes on to its return, a goroutine that can send its error
\* sends it, shutdown goes from group to group, and Run returns when
\* wg.Wait() lets it
WorkerFairSpec ==
    /\ WorkerSpec
    /\ WF_vars(\E o \in ReportOutcomes : ReportRunning(o))
    /\ WF_vars(\E result \in {"nil", "err", "panic"} : Execute(result))
    /\ WF_vars(\E o \in ReportOutcomes : ReportTerminal(o))
    /\ WF_vars(Return)
    /\ WF_vars(\E g \in Groups : SendError(g))
    /\ WF_vars(\E g \in Groups : ShutdownOne(g))
    /\ WF_vars(RunReturn)

-----------------------------------------------------------------------------
(* ReportWithRetry *)

\* DefaultReportRetryConfig
DefaultReportRetryConfig ==
    [MaxRetries |-> DefaultMaxRetries, InitialBackoff |-> DefaultInitialBackoff,
     MaxBackoff |-> DefaultMaxBackoff, BackoffFactor |-> DefaultBackoffFactor]

\* The configurations ReportWithRetry is called with: the default one, the
\* default one with fewer retries (none, and a negative number), one whose
\* backoff reaches the cap and one whose initial backoff is above the cap
RetryConfigs ==
    {[DefaultReportRetryConfig EXCEPT !.MaxRetries = n] : n \in -1..DefaultMaxRetries}
    \cup {[DefaultReportRetryConfig EXCEPT !.InitialBackoff = 20],
          [DefaultReportRetryConfig EXCEPT !.InitialBackoff = 40]}

\* What reporter.ReportAttempt returns on the 1st, 2nd, ... call: nil or an error
CallOutcomes == [1..(DefaultMaxRetries + 1) -> {"ok", "e"}]

\* The second at which the caller's context is cancelled, counted from the
\* call of ReportWithRetry; NoCancel when it never is
CancelTimes == {0, 1, 2, 3, 5, 7, 20, 25, NoCancel}

\* A ReportWithRetry that reports success once it has used up its retries
RetrySwallows(lastErr) == [kind |-> "nil", cause |-> 0]

\* ReportWithRetry: return fmt.Errorf("...: %w", lastErr) after the loop
RetryExhausted(lastErr) == [kind |-> "wrapped", cause |-> lastErr]

\* A backoff that does not look at the context
ContextNeverDone(in, now, backoff) == FALSE

\* ReportWithRetry, the select of a backoff that starts at now: TRUE when it
\* takes case <-ctx.Done(), because the context is cancelled before the timer
\* fires, or at the same instant and that case is the one taken
ContextDone(in, now, backoff) ==
    \/ in.cancelAt < now + backoff
    \/ in.cancelAt = now + backoff /\ ~in.timerFirst

\* ReportWithRetry, the for loop from iteration attempt on.  now is the time
\* elapsed, calls the number of ReportAttempt calls made, waits the backoffs
\* waited, lastErr the call that failed last (0: none).  A select whose two
\* channels are ready at the same instant takes either (in.timerFirst).
RECURSIVE RetryLoop(_, _, _, _, _, _, _)
RetryLoop(in, attempt, backoff, now, calls, waits, lastErr) ==
    IF attempt > in.config.MaxRetries
    THEN [err |-> RetryExhausted(lastErr), calls |-> calls, waits |-> waits]
    ELSE IF attempt > 0 /\ ContextDone(in, now, backoff)
    THEN [err |-> [kind |-> "ctx", cause |-> 0], calls |-> calls, waits |-> waits]
    ELSE LET waited == attempt > 0
             t == IF waited THEN now + backoff ELSE now
             w == IF waited THEN Append(waits, backoff) ELSE waits
             next == IF waited
                     THEN Min(backoff * in.config.BackoffFactor, in.config.MaxBackoff)
                     ELSE backoff
         IN  IF in.outcomes[calls + 1] = "ok"
             THEN [err |-> [kind |-> "nil", cause |-> 0], calls |-> calls + 1, waits |-> w]
             ELSE RetryLoop(in, attempt + 1, next, t, calls + 1, w, calls + 1)

\* ReportWithRetry(ctx, reporter, taskID, req, config)
ReportWithRetry ==
    /\ call.err.kind = "none"
    /\ LET r == RetryLoop(call, 0, call.config.InitialBackoff, 0, 0, <<>>, 0)
       IN  call' = [call EXCEPT !.err = r.err, !.calls = r.calls, !.waits = r.waits]
    /\ UNCHANGED <<baseURL, servers, run, inv, hb>>
    /\ UNCHANGED <<serverVars, extraVars>>

\* A caller about to call ReportWithRetry
RetryInit ==
    /\ impl = "router"
    /\ items = Persisted
    /\ tasks = <<>>
    /\ attempts = EmptyBag
    /\ enqueued = <<>>
    /\ locks = <<>>
    /\ clock = 0
    /\ genCount = 0
    /\ subscribed = UNION {New(w, Persisted[w].QueueGroups) : w \in DOMAIN Persisted}
    /\ resp = Resp("", 0, <<>>, <<>>, 0)
    /\ ops = 0
    /\ baseURL = TRUE
    /\ servers = [g \in Groups |-> "running"]
    /\ run = Serving
    /\ inv = NoInvocation
    /\ call \in {[NoCall EXCEPT !.config = c, !.outcomes = o, !.cancelAt = t,
                                 !.timerFirst = b]
                    : c \in RetryConfigs, o \in CallOutcomes, t \in CancelTimes,
                      b \in BOOLEAN}
    /\ hb = NewHeartbeatManager
    /\ workerRows = Persisted
    /\ got = NoResult
    /\ beat = NoBeat
    /\ ExtraIdle

RetryNext == ReportWithRetry

RetrySpec == RetryInit /\ [][RetryNext]_vars

-----------------------------------------------------------------------------
(* HeartbeatManager *)

\* HeartbeatManager.Start up to the first heartbeat: return at once when
\* Stop was called before, else create the ticker and send immediately
Start ==
    /\ hb.pc = "new"
    /\ hb' = [hb EXCEPT !.pc = IF hb.stopped THEN "done" ELSE "send"]
    /\ UNCHANGED <<baseURL, servers, run, inv, call>>
    /\ UNCHANGED <<serverVars, extraVars>>

\* A loop that gives up after a heartbeat that failed
FailedHeartbeatEndsLoop(ok) == IF ok THEN "select" ELSE "done"

\* Start: sendHeartbeat returns nothing, the loop goes on to its select
AfterHeartbeat(ok) == "select"

\* HeartbeatManager.sendHeartbeat: one POST /workers/<name>/heartbeat with a
\* 5 s timeout; an error is logged and nothing else.  With a cancelled
\* context the request fails.
sendHeartbeat(ok) ==
    /\ hb.pc = "send"
    /\ hb.ctx = "cancelled" => ~ok
    /\ hb' = [hb EXCEPT !.pc = AfterHeartbeat(ok),
                        !.sends = Append(@, [ok |-> ok,
                                             late |-> hb.stopped \/ hb.ctx = "cancelled"])]
    /\ UNCHANGED <<baseURL, servers, run, inv, call>>
    /\ UNCHANGED <<serverVars, extraVars>>

\* time.Ticker: one tick per interval into ticker.C, which holds one tick.
\* A heartbeat takes at most its 5 s timeout and the interval is 30 s, so
\* the tick before has been taken when the next one fires.
TickerFires ==
    /\ hb.pc \in {"send", "select"}
    /\ hb.fired < MaxTicks
    /\ hb.tick = 0
    /\ hb' = [hb EXCEPT !.tick = 1, !.fired = @ + 1]
    /\ UNCHANGED <<baseURL, servers, run, inv, call>>
    /\ UNCHANGED <<serverVars, extraVars>>

\* Start, the select of the loop: case <-ticker.C: sendHeartbeat
SelectTick ==
    /\ hb.pc = "select"
    /\ hb.tick = 1
    /\ hb' = [hb EXCEPT !.tick = 0, !.pc = "send"]
    /\ UNCHANGED <<baseURL, servers, run, inv, call>>
    /\ UNCHANGED <<serverVars, extraVars>>

\* Start, the select of the loop: case <-ctx.Done() and case <-h.stopCh:
\* return (the deferred ticker.Stop ends the ticker).  When a tick is ready
\* as well, select takes any of the ready cases.
SelectDone ==
    /\ hb.pc = "select"
    /\ hb.stopped \/ hb.ctx = "cancelled"
    /\ hb' = [hb EXCEPT !.pc = "done"]
    /\ UNCHANGED <<baseURL, servers, run, inv, call>>
    /\ UNCHANGED <<serverVars, extraVars>>

\* HeartbeatManager.Stop: close(stopCh) once, stopped = true
Stop ==
    /\ ~hb.stopped
    /\ hb' = [hb EXCEPT !.stopped = TRUE]
    /\ UNCHANGED <<baseURL, servers, run, inv, call>>
    /\ UNCHANGED <<serverVars, extraVars>>

\* The caller cancels the context it gave to Start
CancelContext ==
    /\ hb.ctx = "live"
    /\ hb' = [hb EXCEPT !.ctx = "cancelled"]
    /\ UNCHANGED <<baseURL, servers, run, inv, call>>
    /\ UNCHANGED <<serverVars, extraVars>>

\* A process that owns a HeartbeatManager and is about to start it
HeartbeatInit ==
    /\ impl = "router"
    /\ items = Persisted
    /\ tasks = <<>>
    /\ attempts = EmptyBag
    /\ enqueued = <<>>
    /\ locks = <<>>
    /\ clock = 0
    /\ genCount = 0
    /\ subscribed = UNION {New(w, Persisted[w].QueueGroups) : w \in DOMAIN Persisted}
    /\ resp = Resp("", 0, <<>>, <<>>, 0)
    /\ ops = 0
    /\ baseURL = TRUE
    /\ servers = [g \in Groups |-> "running"]
    /\ run = Serving
    /\ inv = NoInvocation
    /\ call = NoCall
    /\ hb = NewHeartbeatManager
    /\ workerRows = Persisted
    /\ got = NoResult
    /\ beat = NoBeat
    /\ ExtraIdle

HeartbeatNext ==
    \/ Start
    \/ \E ok \in BOOLEAN : sendHeartbeat(ok)
    \/ TickerFires
    \/ SelectTick
    \/ SelectDone
    \/ Stop
    \/ CancelContext

HeartbeatSpec == HeartbeatInit /\ [][HeartbeatNext]_vars

-----------------------------------------------------------------------------
(* The worker endpoints and the registry behind them *)

\* The bytes that occur in names, in ascending order
Bytes ==
    <<" ", "-", "0", "1", "2", "3", "4", "5", "6", "7", "8", "9", ":",
      "A", "B", "C", "D", "E", "F", "G", "H", "I", "J", "K", "L", "M",
      "N", "O", "P", "Q", "R", "S", "T", "U", "V", "W", "X", "Y", "Z", "_",
      "a", "b", "c", "d", "e", "f", "g", "h", "i", "j", "k", "l", "m",
      "n", "o", "p", "q", "r", "s", "t", "u", "v", "w", "x", "y", "z">>

Rank(ch) == CHOOSE i \in 1..Len(Bytes) : Bytes[i] = ch

\* Go's < on strings: byte-wise, a proper prefix is smaller
RECURSIVE StringLess(_, _)
StringLess(a, b) ==
    IF b = <<>> THEN FALSE
    ELSE IF a = <<>> THEN TRUE
    ELSE IF Head(a) # Head(b) THEN Rank(Head(a)) < Rank(Head(b))
    ELSE StringLess(Tail(a), Tail(b))

\* Store.List: the values of the map, sorted by worker_name
RECURSIVE SortByName(_)
SortByName(rows) ==
    IF rows = {} THEN <<>>
    ELSE LET first == CHOOSE r \in rows :
                          \A o \in rows \ {r} : StringLess(r.WorkerName, o.WorkerName)
         IN  <<first>> \o SortByName(rows \ {first})

\* The configurations sent to the worker endpoints: the plain ones, one with
\* explicit and negative values and a second group, one that names a group
\* twice, one whose name is padded with blanks, one whose names are outside
\* the classes of the validation, and the malformed ones
RegistryConfigs ==
    LET plain == CHOOSE c \in ConfigInputs : c.WorkerName = W1 /\ c.IsEnabled
        group(n, k, pr) == [Name |-> n, Concurrency |-> k, Priorities |-> pr]
    IN  {plain,
         [plain EXCEPT !.IsEnabled = FALSE],
         [plain EXCEPT !.QueueGroups = <<group(Q1, 5, PriorityCritical :> 7),
                                         group(Q2, -1, <<>>)>>,
                       !.DefaultRetryCount = 5, !.DefaultDelay = -1],
         [plain EXCEPT !.QueueGroups = <<group(Q1, 0, <<>>), group(Q1, 2, <<>>)>>],
         [plain EXCEPT !.WorkerName = <<" ">> \o W2 \o <<" ">>],
         [plain EXCEPT !.WorkerName = WShort,
                       !.QueueGroups = <<group(QBadChar, 0, <<>>)>>],
         [plain EXCEPT !.WorkerName = <<>>],
         [plain EXCEPT !.WorkerName = <<" ">>],
         [plain EXCEPT !.QueueGroups = <<>>],
         [plain EXCEPT !.QueueGroups = <<group(Q1, 0, <<>>), group(<<>>, 0, <<>>)>>]}

\* WorkerRepo.Upsert: insert ... on conflict (worker_name) update every column
WorkerRepoUpsert(tbl, c) == Put(tbl, c.WorkerName, c)

\* WorkerRepo.UpdateHeartbeat: update ... where worker_name = ? (no row: no change)
WorkerRepoUpdateHeartbeat(tbl, workerName, heartbeatAt) ==
    IF workerName \in DOMAIN tbl
    THEN [tbl EXCEPT ![workerName].LastHeartbeatAt = heartbeatAt]
    ELSE tbl

\* A lookup that reports every name as registered
StoreGetAlwaysFinds(tbl, workerName) ==
    [item |-> IF workerName \in DOMAIN tbl THEN tbl[workerName] ELSE NoConfig,
     ok |-> TRUE]

\* Store.Get: v, ok := s.items[workerName], the zero Config when missing
StoreGet(tbl, workerName) ==
    IF workerName \in DOMAIN tbl THEN [item |-> tbl[workerName], ok |-> TRUE]
    ELSE [item |-> NoConfig, ok |-> FALSE]

\* A call that changes neither the registry nor the worker table
RegistryRejected(op, code) ==
    /\ resp' = Resp(op, code, <<>>, <<>>, 0)
    /\ got' = NoResult
    /\ UNCHANGED <<impl, items, tasks, attempts, enqueued, locks, clock, genCount,
                   subscribed, workerRows, beat>>

\* Store.Upsert followed by WorkerRepo.Upsert, as POST /workers and
\* POST /workers/register do: 400 when the store refuses the config, 500
\* when the table write fails after the registry was changed
UpsertAndPersist(op, c, dbOk) ==
    IF UpsertError(c) # "" THEN RegistryRejected(op, 400)
    ELSE LET item == UpsertDefaults(c)
         IN  /\ items' = StoreRow(items, item)
             /\ workerRows' = IF dbOk THEN WorkerRepoUpsert(workerRows, item)
                               ELSE workerRows
             /\ resp' = Resp(op, IF dbOk THEN 200 ELSE 500, <<>>, <<>>, 0)
             /\ got' = [item |-> IF dbOk THEN item ELSE NoConfig, items |-> <<>>]
             /\ UNCHANGED <<impl, tasks, attempts, enqueued, locks, clock, genCount,
                            subscribed, beat>>

\* NewRouter: api.POST("/workers", ...)
CreateWorker(req, dbOk) ==
    /\ Budget
    /\ UpsertAndPersist("CreateWorker", req, dbOk)

\* A register endpoint that upserts whatever the overwrite flag says
RegisterNeverSkips(exists, overwrite) == FALSE

\* RegisterWorker: exists && !req.Overwrite
RegisterSkips(exists, overwrite) == exists /\ ~overwrite

\* WorkerHandler.RegisterWorker and NewRouter: api.POST("/workers/register", ...)
RegisterWorker(req, overwrite, dbOk) ==
    /\ Budget
    /\ IF req.WorkerName = <<>> \/ req.QueueGroups = <<>>
       THEN RegistryRejected("RegisterWorker", 400)
       ELSE IF RegisterSkips(StoreGet(items, req.WorkerName).ok, overwrite)
       THEN /\ resp' = Resp("RegisterWorker", 200, <<>>, <<>>, 0)
            /\ got' = NoResult
            /\ UNCHANGED <<impl, items, tasks, attempts, enqueued, locks, clock,
                           genCount, subscribed, workerRows, beat>>
       ELSE UpsertAndPersist("RegisterWorker",
                             [req EXCEPT !.IsEnabled = TRUE, !.LastHeartbeatAt = clock],
                             dbOk)

\* Heartbeat endpoint, first half: the name check of the route (NewRouter
\* only) and Store.Get; 404 when the worker is not registered
HeartbeatGet(workerName) ==
    /\ Budget
    /\ beat.pc = "none"
    /\ IF impl = "router" /\ ~ValidateWorkerName(workerName)
       THEN RegistryRejected("Heartbeat", 400)
       ELSE IF ~StoreGet(items, workerName).ok THEN RegistryRejected("Heartbeat", 404)
       ELSE /\ beat' = [pc |-> "got",
                        config |-> [StoreGet(items, workerName).item
                                      EXCEPT !.LastHeartbeatAt = clock]]
            /\ resp' = Resp("Heartbeat", 0, <<>>, <<>>, 0)
            /\ got' = [item |-> StoreGet(items, workerName).item, items |-> <<>>]
            /\ UNCHANGED <<impl, items, tasks, attempts, enqueued, locks, clock,
                           genCount, subscribed, workerRows>>

\* Heartbeat endpoint, second half: Store.Upsert of the config read before,
\* then WorkerRepo.UpdateHeartbeat
HeartbeatUpsert(dbOk) ==
    /\ beat.pc = "got"
    /\ beat' = NoBeat
    /\ ops' = ops
    /\ IF UpsertError(beat.config) # ""
       THEN /\ resp' = Resp("Heartbeat", 500, <<>>, <<>>, 0)
            /\ got' = NoResult
            /\ UNCHANGED <<impl, items, tasks, attempts, enqueued, locks, clock,
                           genCount, subscribed, workerRows>>
       ELSE LET item == UpsertDefaults(beat.config)
            IN  /\ items' = StoreRow(items, item)
                /\ workerRows' =
                      IF dbOk
                      THEN WorkerRepoUpdateHeartbeat(workerRows, item.WorkerName,
                                                     item.LastHeartbeatAt)
                      ELSE workerRows
                /\ resp' = Resp("Heartbeat", IF dbOk THEN 200 ELSE 500, <<>>, <<>>, 0)
                /\ got' = [item |-> item, items |-> <<>>]
                /\ UNCHANGED <<impl, tasks, attempts, enqueued, locks, clock, genCount,
                               subscribed>>

\* Store.UpdateHeartbeat: under the write lock; an error when the worker is
\* not registered (404 stands for it)
UpdateHeartbeat(workerName) ==
    /\ Budget
    /\ IF workerName \notin DOMAIN items THEN RegistryRejected("UpdateHeartbeat", 404)
       ELSE /\ items' = [items EXCEPT ![workerName].LastHeartbeatAt = clock]
            /\ resp' = Resp("UpdateHeartbeat", 200, <<>>, <<>>, 0)
            /\ got' = NoResult
            /\ UNCHANGED <<impl, tasks, attempts, enqueued, locks, clock, genCount,
                           subscribed, workerRows, beat>>

\* NewRouter: api.GET("/workers/:worker_name", ...) over Store.Get
Get(workerName) ==
    /\ Budget
    /\ IF impl = "router" /\ ~ValidateWorkerName(workerName)
       THEN RegistryRejected("Get", 400)
       ELSE IF ~StoreGet(items, workerName).ok THEN RegistryRejected("Get", 404)
       ELSE /\ resp' = Resp("Get", 200, <<>>, <<>>, 0)
            /\ got' = [item |-> StoreGet(items, workerName).item, items |-> <<>>]
            /\ UNCHANGED <<impl, items, tasks, attempts, enqueued, locks, clock,
                           genCount, subscribed, workerRows, beat>>

\* NewRouter: api.GET("/workers", ...) over Store.List
List ==
    /\ Budget
    /\ resp' = Resp("List", 200, <<>>, <<>>, 0)
    /\ got' = [item |-> NoConfig, items |-> SortByName({items[w] : w \in DOMAIN items})]
    /\ UNCHANGED <<impl, items, tasks, attempts, enqueued, locks, clock, genCount,
                   subscribed, workerRows, beat>>

\* The names the worker endpoints are called with
WorkerNames == {W1, W2, WShort}

\* A control plane whose registry was loaded from the worker table
RegistryInit == Init

RegistryNext ==
    \/ \E c \in RegistryConfigs, dbOk \in BOOLEAN : CreateWorker(c, dbOk)
            /\ UNCHANGED <<sdkVars, extraVars>>
    \/ \E c \in RegistryConfigs, overwrite \in BOOLEAN, dbOk \in BOOLEAN :
            RegisterWorker(c, overwrite, dbOk)
            /\ UNCHANGED <<sdkVars, extraVars>>
    \/ \E w \in WorkerNames : HeartbeatGet(w)
            /\ UNCHANGED <<sdkVars, extraVars>>
    \/ \E dbOk \in BOOLEAN : HeartbeatUpsert(dbOk)
            /\ UNCHANGED <<sdkVars, extraVars>>
    \/ \E w \in WorkerNames : UpdateHeartbeat(w)
            /\ UNCHANGED <<sdkVars, extraVars>>
    \/ \E w \in WorkerNames : Get(w)
            /\ UNCHANGED <<sdkVars, extraVars>>
    \/ List /\ UNCHANGED <<sdkVars, extraVars>>
    \/ \E w \in {W1, W2} : Delete(w)
            /\ UNCHANGED <<sdkVars, registryVars, extraVars>>
    \/ Tick /\ UNCHANGED <<sdkVars, registryVars, extraVars>>

RegistrySpec == RegistryInit /\ [][RegistryNext]_vars

-----------------------------------------------------------------------------
(* sdk.Worker: registering handlers and dispatching to them *)

\* The queue groups the worker wk1 was built with (WithQueueGroups): q1 with
\* the default priorities, q2 with one priority of its own
Declared == (Q1 :> DefaultPriorities) @@ (Q2 :> (PriorityCritical :> 7))

\* The callbacks the program registers
Callbacks == {"f1", "f2"}

\* The queue groups HandleFunc is called with; the last one is not declared
HandleGroups == {Q1, Q2, QBadChar}

\* qg.handlers and qg.Mux of a group that has no handler yet
GroupHandlers(h, queueGroup) == IF queueGroup \in DOMAIN h THEN h[queueGroup] ELSE <<>>

\* A registration that replaces the handler a routing key already has
registerHandlerReplaces(h, queueGroup, priority, fn) ==
    Put(h, queueGroup,
        Put(GroupHandlers(h, queueGroup), fullQueueName(W1, queueGroup, priority), fn))

\* Worker.registerHandler: a routing key that has a handler keeps it, else
\* the wrapper around fn is added to the group's ServeMux under that key
registerHandler(h, queueGroup, priority, fn) ==
    IF fullQueueName(W1, queueGroup, priority) \in DOMAIN GroupHandlers(h, queueGroup)
    THEN h
    ELSE Put(h, queueGroup,
             Put(GroupHandlers(h, queueGroup), fullQueueName(W1, queueGroup, priority), fn))

\* for priority := range qg.Priorities { w.registerHandler(...) }
RECURSIVE registerEach(_, _, _, _)
registerEach(h, queueGroup, priorities, fn) ==
    IF priorities = {} THEN h
    ELSE LET priority == CHOOSE x \in priorities : TRUE
         IN  registerEach(registerHandler(h, queueGroup, priority, fn), queueGroup,
                          priorities \ {priority}, fn)

\* Worker.HandleFunc: nothing for a group that was not declared
HandleFunc(queueGroup, fn) ==
    /\ mux' = [handlers |->
                  IF queueGroup \in DOMAIN Declared
                  THEN registerEach(mux.handlers, queueGroup, DOMAIN Declared[queueGroup], fn)
                  ELSE mux.handlers,
               served |-> NoHandlers.served]
    /\ UNCHANGED <<sdkVars, serverVars, flight, heap>>

\* Worker.HandleFuncWithPriority: nothing for a group or a priority that was
\* not declared
HandleFuncWithPriority(queueGroup, priority, fn) ==
    /\ mux' = [handlers |->
                  IF queueGroup \in DOMAIN Declared /\ priority \in DOMAIN Declared[queueGroup]
                  THEN registerHandler(mux.handlers, queueGroup, priority, fn)
                  ELSE mux.handlers,
               served |-> NoHandlers.served]
    /\ UNCHANGED <<sdkVars, serverVars, flight, heap>>

IsPrefix(pattern, typeName) ==
    Len(pattern) <= Len(typeName) /\ SubSeq(typeName, 1, Len(pattern)) = pattern

\* The ServeMux of a group, given a task type: the handler of the longest
\* pattern that begins the type, "NotFound" when there is none
Handler(h, queueGroup, typeName) ==
    LET matching == {k \in DOMAIN GroupHandlers(h, queueGroup) : IsPrefix(k, typeName)}
    IN  IF matching = {} THEN "NotFound"
        ELSE GroupHandlers(h, queueGroup)[CHOOSE k \in matching :
                                             \A o \in matching : Len(o) <= Len(k)]

\* The server of a group takes a task of the routing key worker:group:priority
\* from its queue and hands it to the group's ServeMux
Serve(queueGroup, priority) ==
    /\ queueGroup \in DOMAIN Declared
    /\ priority \in DOMAIN Declared[queueGroup]
    /\ mux' = [mux EXCEPT !.served =
                  [type |-> fullQueueName(W1, queueGroup, priority),
                   fn |-> Handler(mux.handlers, queueGroup,
                                  fullQueueName(W1, queueGroup, priority))]]
    /\ UNCHANGED <<sdkVars, serverVars, flight, heap>>

\* A worker that sdk.New has built, with no handler yet
MuxInit == HeartbeatInit

MuxNext ==
    \/ \E g \in HandleGroups, fn \in Callbacks : HandleFunc(g, fn)
    \/ \E g \in HandleGroups, pr \in {PriorityCritical, PriorityDefault, PriorityLow},
          fn \in Callbacks : HandleFuncWithPriority(g, pr, fn)
    \/ \E g \in DOMAIN Declared, pr \in {PriorityCritical, PriorityDefault, PriorityLow} :
          Serve(g, pr)

MuxSpec == MuxInit /\ [][MuxNext]_vars

-----------------------------------------------------------------------------
(* The worker endpoints, request by request: the registry write and the
   table write of one request are two steps, other requests run in between *)

\* POST /workers up to Store.Upsert
CreateWorkerStore(c) ==
    /\ Budget
    /\ IF UpsertError(c) # ""
       THEN /\ RegistryRejected("CreateWorker", 400)
            /\ flight' = [flight EXCEPT !.failed = TRUE]
       ELSE /\ items' = StoreRow(items, UpsertDefaults(c))
            /\ flight' = [flight EXCEPT !.pending = @ \cup {UpsertDefaults(c)}]
            /\ resp' = Resp("CreateWorker", 0, <<>>, <<>>, 0)
            /\ got' = NoResult
            /\ UNCHANGED <<impl, tasks, attempts, enqueued, locks, clock, genCount,
                           subscribed, workerRows, beat>>
    /\ UNCHANGED <<sdkVars, mux, heap>>

\* POST /workers/register up to Store.Upsert; a registration that is
\* skipped is complete at once
RegisterWorkerStore(req, overwrite) ==
    /\ Budget
    /\ IF req.WorkerName = <<>> \/ req.QueueGroups = <<>>
       THEN /\ RegistryRejected("RegisterWorker", 400)
            /\ flight' = [flight EXCEPT !.failed = TRUE]
       ELSE IF RegisterSkips(StoreGet(items, req.WorkerName).ok, overwrite)
       THEN /\ resp' = Resp("RegisterWorker", 200, <<>>, <<>>, 0)
            /\ got' = NoResult
            /\ UNCHANGED <<impl, items, tasks, attempts, enqueued, locks, clock,
                           genCount, subscribed, workerRows, beat, flight>>
       ELSE LET config == [req EXCEPT !.IsEnabled = TRUE, !.LastHeartbeatAt = clock]
            IN  IF UpsertError(config) # ""
                THEN /\ RegistryRejected("RegisterWorker", 400)
                     /\ flight' = [flight EXCEPT !.failed = TRUE]
                ELSE /\ items' = StoreRow(items, UpsertDefaults(config))
                     /\ flight' = [flight EXCEPT !.pending = @ \cup {UpsertDefaults(config)}]
                     /\ resp' = Resp("RegisterWorker", 0, <<>>, <<>>, 0)
                     /\ got' = NoResult
                     /\ UNCHANGED <<impl, tasks, attempts, enqueued, locks, clock,
                                    genCount, subscribed, workerRows, beat>>
    /\ UNCHANGED <<sdkVars, mux, heap>>

\* The rest of either request: WorkerRepo.Upsert(item), then 200, or 500 when
\* the table write failed
WorkerPersist(item, dbOk) ==
    /\ item \in flight.pending
    /\ flight' = [pending |-> flight.pending \ {item}, failed |-> flight.failed \/ ~dbOk]
    /\ workerRows' = IF dbOk THEN WorkerRepoUpsert(workerRows, item) ELSE workerRows
    /\ resp' = Resp("Persist", IF dbOk THEN 200 ELSE 500, <<>>, <<>>, 0)
    /\ got' = [item |-> IF dbOk THEN item ELSE NoConfig, items |-> <<>>]
    /\ UNCHANGED <<impl, items, tasks, attempts, enqueued, locks, clock, genCount,
                   subscribed, ops, beat>>
    /\ UNCHANGED <<sdkVars, mux, heap>>

MirrorInit == Init

MirrorNext ==
    \/ \E c \in ConfigInputs : CreateWorkerStore(c)
    \/ \E c \in ConfigInputs, overwrite \in BOOLEAN : RegisterWorkerStore(c, overwrite)
    \/ \E item \in flight.pending, dbOk \in BOOLEAN : WorkerPersist(item, dbOk)
    \/ Tick /\ UNCHANGED <<sdkVars, registryVars, extraVars>>

MirrorSpec == MirrorInit /\ [][MirrorNext]_vars

-----------------------------------------------------------------------------
(* Batch retry over a task table of many rows *)

MaxRows == 120

\* The sizes of the task table: empty, a few rows, one row above the limit
\* TaskRepo.ListTasks falls back to, and more rows than the default limit
RowCounts == {0, 3, 51, MaxRows}

\* The three decimal digits of i in 0..999
Itoa3(i) ==
    LET d == <<"0","1","2","3","4","5","6","7","8","9">>
    IN  <<d[(i \div 100) + 1], d[((i \div 10) % 10) + 1], d[(i % 10) + 1]>>

\* The task id of the i-th row created
RowID(i) == <<"t", "-">> \o Itoa3(i)

\* A task table of n failed tasks: the newest row is a task of wk2, the
\* older ones are tasks of wk1
Rows(n) ==
    [id \in {RowID(i) : i \in 1..n} |->
        LET i == CHOOSE j \in 1..n : RowID(j) = id
            w == IF i = n THEN W2 ELSE W1
        IN  [NewTaskRow(id, w, fullQueue(w, Q1), 0, P1)
                EXCEPT !.status = "fail", !.last_attempt = 1, !.last_error = E1,
                       !.last_worker_name = w, !.created_at = i]]

\* Batch retry requests in filter mode (no task_ids)
ListInputs ==
    {[worker_name |-> f[1], status |-> f[2], task_ids |-> <<>>, limit |-> l]
        : f \in {<<<<>>, "">>, <<<<>>, "fail">>, <<W1, "fail">>},
          l \in {0, 1, 100, 200, 201, 1001}}

\* The control plane restarted over a table of failed tasks; the worker
\* wk1 is not in the worker table any more
ListInit ==
    /\ impl \in {"router", "handler"}
    /\ items = Remove(Persisted, W1)
    /\ tasks \in {Rows(n) : n \in RowCounts}
    /\ attempts = EmptyBag
    /\ enqueued = <<>>
    /\ locks = <<>>
    /\ clock = 0
    /\ genCount = 0
    /\ subscribed = UNION {New(w, Persisted[w].QueueGroups) : w \in DOMAIN Persisted}
    /\ resp = Resp("", 0, <<>>, <<>>, 0)
    /\ ops = 0
    /\ baseURL = TRUE
    /\ servers = [g \in Groups |-> "running"]
    /\ run = Serving
    /\ inv = NoInvocation
    /\ call = NoCall
    /\ hb = NewHeartbeatManager
    /\ workerRows = Remove(Persisted, W1)
    /\ got = NoResult
    /\ beat = NoBeat
    /\ ExtraIdle

ListNext ==
    \/ \E req \in ListInputs, f \in BatchFaults : RouterBatchRetry(req, f[1], f[2])
            /\ UNCHANGED <<sdkVars, registryVars, extraVars>>
    \/ \E req \in ListInputs, f \in BatchFaults : HandlerBatchRetry(req, f[1], f[2])
            /\ UNCHANGED <<sdkVars, registryVars, extraVars>>

ListSpec == ListInit /\ [][ListNext]_vars

-----------------------------------------------------------------------------
(* The registry and the values its callers hold *)

\* Store.Upsert called with a Config the caller built and keeps: the map
\* entry is the caller's struct, whose QueueGroups slice points to the
\* caller's array (s.items[c.WorkerName] = c copies the slice header only)
AliasUpsert(c) ==
    /\ Upsert(c)
    /\ heap' = IF UpsertError(c) = ""
               THEN [ref |-> Put(heap.ref, UpsertDefaults(c).WorkerName, heap.next),
                     held |-> heap.held \cup {heap.next},
                     next |-> heap.next + 1]
               ELSE heap
    /\ UNCHANGED <<sdkVars, registryVars, mux, flight>>

\* A call that leaves the registry as it is
Reads(op, found) ==
    /\ resp' = Resp(op, IF found THEN 200 ELSE 404, <<>>, <<>>, 0)
    /\ UNCHANGED <<impl, items, tasks, attempts, enqueued, locks, clock, genCount,
                   subscribed, workerRows, beat>>
    /\ UNCHANGED <<sdkVars, mux, flight>>

\* Store.Get called in the process: return v, ok, a copy of the struct with
\* the slice header of the registry's row
HoldGet(workerName) ==
    /\ Budget
    /\ got' = [item |-> StoreGet(items, workerName).item, items |-> <<>>]
    /\ heap' = IF StoreGet(items, workerName).ok
               THEN [heap EXCEPT !.held = @ \cup {heap.ref[workerName]}]
               ELSE heap
    /\ Reads("Store.Get", StoreGet(items, workerName).ok)

\* Store.List called in the process: out = append(out, v) for every row
HoldList ==
    /\ Budget
    /\ got' = [item |-> NoConfig, items |-> SortByName({items[w] : w \in DOMAIN items})]
    /\ heap' = [heap EXCEPT !.held = @ \cup {heap.ref[w] : w \in DOMAIN items}]
    /\ Reads("Store.List", TRUE)

\* Store.GetQueueGroup: worker.GetQueueGroup returns &c.QueueGroups[i], a
\* pointer into the array of the registry's row
HoldGetQueueGroup(workerName, queueGroupName) ==
    /\ Budget
    /\ got' = [item |-> IF HasQueue(workerName, queueGroupName)
                        THEN items[workerName] ELSE NoConfig,
               items |-> <<>>]
    /\ heap' = IF HasQueue(workerName, queueGroupName)
               THEN [heap EXCEPT !.held = @ \cup {heap.ref[workerName]}]
               ELSE heap
    /\ Reads("Store.GetQueueGroup", HasQueue(workerName, queueGroupName))

\* What a caller writes into a queue group it holds
Mutations ==
    {[field |-> "Concurrency", key |-> <<>>, value |-> 20],
     [field |-> "Priorities", key |-> PriorityCritical, value |-> 1]}

\* qg.Concurrency = value, or qg.Priorities[key] = value
Write(qg, m) ==
    IF m.field = "Concurrency" THEN [qg EXCEPT !.Concurrency = m.value]
    ELSE [qg EXCEPT !.Priorities = Put(@, m.key, m.value)]

\* A caller writes to element i of an array it holds, as
\* cfg.QueueGroups[0].Concurrency = 20 does after an Upsert: every row of the
\* registry whose slice points to that array shows the write
Mutate(a, i, m) ==
    /\ Budget
    /\ a \in heap.held
    /\ items' = [w \in DOMAIN items |->
                    IF heap.ref[w] = a /\ i <= Len(items[w].QueueGroups)
                    THEN [items[w] EXCEPT !.QueueGroups[i] = Write(@, m)]
                    ELSE items[w]]
    /\ resp' = Resp("Mutate", 0, <<>>, <<>>, 0)
    /\ UNCHANGED <<impl, tasks, attempts, enqueued, locks, clock, genCount, subscribed>>
    /\ UNCHANGED <<sdkVars, registryVars, extraVars>>

AliasInit == Init

AliasNext ==
    \/ \E c \in ConfigInputs : AliasUpsert(c)
    \/ \E w \in {W1, W2} : HoldGet(w)
    \/ HoldList
    \/ \E w \in {W1, W2}, g \in {Q1, Q2} : HoldGetQueueGroup(w, g)
    \/ \E a \in heap.held, m \in Mutations : Mutate(a, 1, m)

AliasSpec == AliasInit /\ [][AliasNext]_vars

-----------------------------------------------------------------------------
(* Task lifecycle *)

StatusEdges ==
    {<<"pending", "running">>, <<"running", "success">>, <<"running", "fail">>,
     <<"fail", "dead">>}

\* C1: over any interleaving of CreateTask, Replay, BatchRetry and attempt
\* reports, the status of a task row changes only along pending->running,
\* running->success, running->fail and fail->dead.
C1_StatusFollowsEdges ==
    [][\A id \in DOMAIN tasks :
          id \in DOMAIN tasks' =>
              \/ tasks'[id].status = tasks[id].status
              \/ <<tasks[id].status, tasks'[id].status>> \in StatusEdges]_vars

\* C2: Replay of a task whose status is pending or running answers 400, makes
\* no broker submission and creates no task row.
C2_ReplayRejectsNonTerminal ==
    [][\A id \in ReplayInputs, f \in Faults :
          (/\ id \in DOMAIN tasks
           /\ tasks[id].status \in {"pending", "running"}
           /\ ReplayTask(id, f[1], f[2]))
          => /\ resp'.code = 400
             /\ resp'.calls = 0
             /\ enqueued' = enqueued
             /\ DOMAIN tasks' = DOMAIN tasks]_vars

\* C3: a successful Replay of a terminal task T returns an id other than T's
\* and creates a row under it with T's payload, queue and worker_name, status
\* pending and last_attempt 0.
C3_ReplayMintsCopy ==
    [][\A id \in ReplayInputs, f \in Faults :
          (/\ id \in DOMAIN tasks
           /\ tasks[id].status \in {"success", "fail", "dead"}
           /\ ReplayTask(id, f[1], f[2])
           /\ resp'.code = 200)
          => /\ Len(resp'.ids) = 1
             /\ resp'.ids[1] # id
             /\ resp'.ids[1] \notin DOMAIN tasks
             /\ resp'.ids[1] \in DOMAIN tasks'
             /\ tasks'[resp'.ids[1]].payload = tasks[id].payload
             /\ tasks'[resp'.ids[1]].queue = tasks[id].queue
             /\ tasks'[resp'.ids[1]].worker_name = tasks[id].worker_name
             /\ tasks'[resp'.ids[1]].status = "pending"
             /\ tasks'[resp'.ids[1]].last_attempt = 0]_vars

\* C4: Replay and BatchRetry are additive: every row that existed before the
\* call exists after it with every field as it was.
C4_ReplayAndBatchRetryAdditive ==
    [][resp'.op \in {"ReplayTask", "BatchRetry"} =>
          \A id \in DOMAIN tasks : id \in DOMAIN tasks' /\ tasks'[id] = tasks[id]]_vars

\* A replay or batch retry of a finished task has created its new row
C4_Witness ==
    /\ resp.op \in {"ReplayTask", "BatchRetry"}
    /\ resp.code = 200
    /\ Len(resp.ids) > 0
    /\ resp.ids[1] \in DOMAIN tasks
    /\ \E id \in DOMAIN tasks : tasks[id].status \in {"success", "fail"}

-----------------------------------------------------------------------------
(* Enqueue *)

\* The request breaks a format or size rule
Malformed(req) ==
    \/ Len(req.worker_name) \notin 3..64
    \/ Len(req.queue) \notin 1..64
    \/ Len(req.task_id) > 128
    \/ \E i \in DOMAIN req.worker_name : req.worker_name[i] \notin NameChars
    \/ \E i \in DOMAIN req.queue : req.queue[i] \notin NameChars
    \/ \E i \in DOMAIN req.task_id : req.task_id[i] \notin TaskIDChars
    \/ req.payload.len > MaxPayloadSize

\* The request names no destination the registry declares
Unroutable(req) ==
    \/ req.worker_name \notin DOMAIN items
    \/ ~items[req.worker_name].IsEnabled
    \/ \A i \in 1..Len(items[req.worker_name].QueueGroups) :
            items[req.worker_name].QueueGroups[i].Name # req.queue

\* C5: a CreateTask call that fails validation or routing makes no broker
\* submission.  Stated from the broker's side: a CreateTask step that called
\* the broker, or changed its queue or its locks, is the step of no malformed
\* and of no unroutable request.
C5_RejectedCreateNeverReachesBroker ==
    [][(/\ resp'.op = "CreateTask"
        /\ resp'.calls # 0 \/ enqueued' # enqueued \/ locks' # locks)
       => \A req \in CreateTaskInputs :
              Malformed(req) \/ Unroutable(req)
              => \A chunked \in BOOLEAN, f \in Faults :
                     ~CreateTask(req, chunked, f[1], f[2])]_vars

\* A well-formed request for a disabled worker has been refused
C5_Witness ==
    /\ resp.op = "CreateTask"
    /\ resp.code = 400
    /\ resp.calls = 0
    /\ W1 \in DOMAIN items
    /\ ~items[W1].IsEnabled

\* C6: of two CreateTask calls with the same caller-supplied task_id, the
\* second is refused by the broker when it arrives within 24 hours of the
\* first: accepted work items with one task_id lie at least 24 hours apart.
C6_OnePerTaskIDPerWindow ==
    \A i, j \in 1..Len(enqueued) :
        (/\ i < j
         /\ enqueued[i].payload.task_id \in CallerTaskIDs
         /\ enqueued[i].payload.task_id = enqueued[j].payload.task_id)
        => enqueued[j].at - enqueued[i].at >= UniqueTTLHours

\* C7: the queue the control plane submits the work of (w, g, p) to is the
\* queue the worker runtime consumes for (w, g, p): w:g:p.
C7_RoutingKeyAgrees ==
    [][\A req \in ValidCreateTaskInputs, f \in Faults :
          (CreateTask(req, FALSE, f[1], f[2]) /\ resp'.code = 200)
          => /\ Len(enqueued') = Len(enqueued) + 1
             /\ enqueued'[Len(enqueued')].queue =
                    fullQueueName(req.worker_name, req.queue, req.priority)]_vars

-----------------------------------------------------------------------------
(* Attempt reports *)

\* C8: last_attempt of a task row never decreases, late and out-of-order
\* reports included.
C8_LastAttemptMonotone ==
    [][\A id \in DOMAIN tasks :
          id \in DOMAIN tasks' => tasks'[id].last_attempt >= tasks[id].last_attempt]_vars

\* C9: a running report appends one attempt row and leaves the task row's
\* status, last_attempt, last_error and last_worker_name as they were.
C9_RunningReportOnlyAppends ==
    [][\A req \in ValidReportInputs, f \in Faults :
          (/\ req.status = "running"
           /\ req.task_id \in DOMAIN tasks
           /\ ReportAttempt(req, f[1], f[2])
           /\ resp'.code = 200)
          => /\ BagCardinality(attempts') = BagCardinality(attempts) + 1
             /\ tasks'[req.task_id].status = tasks[req.task_id].status
             /\ tasks'[req.task_id].last_attempt = tasks[req.task_id].last_attempt
             /\ tasks'[req.task_id].last_error = tasks[req.task_id].last_error
             /\ tasks'[req.task_id].last_worker_name = tasks[req.task_id].last_worker_name]_vars

\* C10: after an accepted success or fail report for an existing task, the
\* row's status, last_attempt, last_error and last_worker_name are the
\* reported status, attempt, error and worker name.
C10_TerminalReportRecorded ==
    [][\A req \in ValidReportInputs, f \in Faults :
          (/\ req.status \in {"success", "fail"}
           /\ req.task_id \in DOMAIN tasks
           /\ ReportAttempt(req, f[1], f[2])
           /\ resp'.code = 200)
          => /\ tasks'[req.task_id].status = req.status
             /\ tasks'[req.task_id].last_attempt = req.attempt
             /\ tasks'[req.task_id].last_error = req.error
             /\ tasks'[req.task_id].last_worker_name = req.worker_name]_vars

-----------------------------------------------------------------------------
(* Batch retry, store failures, routing errors *)

\* Positions of the candidates of an explicit task_ids list that cannot be
\* replayed: the worker config is missing, or the broker refuses (failAt)
Unreplayable(req, failAt) ==
    {i \in 1..Len(req.task_ids) :
        tasks[req.task_ids[i]].worker_name \notin DOMAIN items \/ i \in failAt}

\* C12: BatchRetry over N candidates of which M cannot be replayed (worker
\* config missing, broker submission refused), with a store that accepts
\* every write, answers 200, creates exactly
\* N-M new pending rows, returns N-M new ids and lists exactly the M failed
\* candidates.
C12_BatchRetryPartialFailure ==
    [][resp'.op = "BatchRetry" =>
          \A req \in BatchRetryInputs, f \in BatchFaults :
              (/\ f[2]
               /\ Len(req.task_ids) > 0
               /\ \A i \in 1..Len(req.task_ids) : req.task_ids[i] \in DOMAIN tasks
               /\ BatchRetry(req, f[1], f[2]))
              => /\ resp'.code = 200
                 /\ Cardinality(DOMAIN tasks' \ DOMAIN tasks)
                        = Len(req.task_ids) - Cardinality(Unreplayable(req, f[1]))
                 /\ \A id \in DOMAIN tasks' \ DOMAIN tasks : tasks'[id].status = "pending"
                 /\ Len(resp'.ids)
                        = Len(req.task_ids) - Cardinality(Unreplayable(req, f[1]))
                 /\ Len(resp'.failed) = Cardinality(Unreplayable(req, f[1]))
                 /\ {resp'.failed[i] : i \in 1..Len(resp'.failed)}
                        = {req.task_ids[i] : i \in Unreplayable(req, f[1])}]_vars

\* C13: BatchRetry never submits to the broker and never creates a row for a
\* candidate whose status is pending or running: when every row of the table
\* is pending or running, a BatchRetry call submits nothing and creates
\* nothing.
C13_BatchRetryStateGuard ==
    [][(/\ resp'.op = "BatchRetry"
        /\ \A id \in DOMAIN tasks : tasks[id].status \in {"pending", "running"})
       => /\ resp'.calls = 0
          /\ enqueued' = enqueued
          /\ DOMAIN tasks' = DOMAIN tasks]_vars

\* C19: a call whose store write failed is not answered with success: a call
\* answered 200 has written the task rows it announces, and an attempt report
\* answered 200 has added its attempt row.
C19_StoreFailureSurfaced ==
    [][resp'.code = 200 =>
          /\ resp'.op \in {"CreateTask", "ReplayTask", "BatchRetry"}
                => \A i \in 1..Len(resp'.ids) : resp'.ids[i] \in DOMAIN tasks'
          /\ resp'.op = "ReportAttempt"
                => BagCardinality(attempts') = BagCardinality(attempts) + 1]_vars

\* C20: a well-formed CreateTask for a worker that is not registered is
\* answered with a 404-class error, and for a disabled worker or an
\* undeclared queue group with an error; none of them creates a task row.
C20_RoutingErrors ==
    [][resp'.op = "CreateTask" =>
          \A req \in ValidCreateTaskInputs, f \in Faults :
              (Unroutable(req) /\ CreateTask(req, FALSE, f[1], f[2]))
              => /\ resp'.code = IF req.worker_name \notin DOMAIN items THEN 404 ELSE 400
                 /\ tasks' = tasks]_vars

-----------------------------------------------------------------------------
(* The worker runtime *)

\* Number of rows of the attempt table for (taskID, n) with a status in S
AttemptRows(taskID, n, S) ==
    LET rows == {r \in BagToSet(attempts) :
                    r.task_id = taskID /\ r.attempt = n /\ r.status \in S}
    IN  BagCardinality([r \in rows |-> attempts[r]])

\* C11: once attempt n of a task has completed successfully (the handler of
\* a worker that reports to the control plane returned nil and the wrapper
\* is done), the attempt table holds exactly two
\* rows (task_id, n): one running and one terminal.
C11_AttemptPairing ==
    (baseURL /\ inv.pc = "return" /\ inv.result = "nil")
    => LET n == inv.retryCount + 1
       IN  /\ AttemptRows(inv.task_id, n, {"running"}) = 1
           /\ AttemptRows(inv.task_id, n, {"success", "fail", "dead"}) = 1
           /\ AttemptRows(inv.task_id, n, {"pending", "running", "success", "fail",
                                           "dead"}) = 2

\* C14: once Run was triggered to stop, no state has one queue group stopped
\* while another still accepts work, and Run has returned only when every
\* server is stopped and no handler is in progress.
C14_NoPartialShutdown ==
    /\ ~\E g1, g2 \in Groups : servers[g1] = "closed" /\ servers[g2] = "running"
    /\ run.pc = "returned"
          => /\ \A g \in Groups : servers[g] # "running"
             /\ inv.pc = "idle"

Sent == [i \in 1..Len(inv.sent) |->
            <<inv.sent[i].status, inv.sent[i].attempt, inv.sent[i].error>>]

C17_ReportsRetried ==
    inv.pc = "return"
    => \A st \in {"running", "success", "fail"} :
          LET reqs == {i \in 1..Len(inv.sent) : inv.sent[i].status = st}
          IN  (reqs # {} /\ \A i \in reqs : inv.sent[i].err)
              => Cardinality(reqs) = DefaultMaxRetries + 1

-----------------------------------------------------------------------------
(* ReportWithRetry *)

\* The k-th backoff of a configuration: InitialBackoff * BackoffFactor^(k-1),
\* at most MaxBackoff
RECURSIVE Backoff(_, _)
Backoff(config, k) ==
    IF k = 1 THEN config.InitialBackoff
    ELSE Min(Backoff(config, k - 1) * config.BackoffFactor, config.MaxBackoff)

\* The time at which the k-th backoff ends
RECURSIVE WaitEnd(_, _)
WaitEnd(config, k) == IF k = 0 THEN 0 ELSE WaitEnd(config, k - 1) + Backoff(config, k)

\* C18: ReportWithRetry returns nil only if its last report call succeeded;
\* it never waits through a backoff during which the context was cancelled,
\* and when it stops before its calls are used up without a success it
\* returns the context's error; when the first call and all MaxRetries
\* retries failed it returns an error that wraps the last failure.
C18_RetryNeverSwallows ==
    call.err.kind # "none"
    => /\ call.err.kind = "nil"
            => call.calls >= 1 /\ call.outcomes[call.calls] = "ok"
       /\ \A k \in 1..Len(call.waits) :
            /\ call.waits[k] = Backoff(call.config, k)
            /\ call.cancelAt >= WaitEnd(call.config, k)
       /\ (call.err.kind # "nil" /\ call.calls >= 1 /\ call.calls <= call.config.MaxRetries)
            => /\ call.err.kind = "ctx"
               /\ call.cancelAt <= WaitEnd(call.config, Len(call.waits) + 1)
       /\ (call.cancelAt < WaitEnd(call.config, Len(call.waits) + 1)
            /\ call.calls >= 1 /\ call.calls <= call.config.MaxRetries
            /\ call.outcomes[call.calls] = "e")
            => call.err.kind = "ctx"
       /\ (call.calls = call.config.MaxRetries + 1
            /\ \A i \in 1..call.calls : call.outcomes[i] = "e")
            => call.err = [kind |-> "wrapped", cause |-> call.calls]
       /\ call.err.kind = "wrapped" => call.err.cause # 0 \/ call.config.MaxRetries < 0

\* The default configuration used up: four calls failed, after waits of 1, 2
\* and 4 seconds
C18_Witness ==
    /\ call.config = DefaultReportRetryConfig
    /\ call.calls = DefaultMaxRetries + 1
    /\ call.waits = <<1, 2, 4>>
    /\ call.err.kind = "wrapped"

-----------------------------------------------------------------------------
(* Rows behind a response, report statuses *)

\* C21: whenever CreateTask answers success, the task table holds a row keyed
\* by the returned task id, with status pending and last_attempt 0.
C21_CreatedTaskIsPending ==
    [][(resp'.op = "CreateTask" /\ resp'.code = 200)
       => /\ Len(resp'.ids) = 1
          /\ resp'.ids[1] \in DOMAIN tasks'
          /\ tasks'[resp'.ids[1]].status = "pending"
          /\ tasks'[resp'.ids[1]].last_attempt = 0]_vars

\* C22: a report for an existing task with a well-formed id and attempt
\* number, on a working store, is accepted exactly when its status is one of
\* running, success, fail, dead; with any other status it is answered 400
\* and neither the attempt table nor the task table changes.
C22_ReportStatuses ==
    [][resp'.op = "ReportAttempt" =>
          \A req \in ReportInputs :
              (/\ ValidateTaskID(req.task_id)
               /\ req.task_id \in DOMAIN tasks
               /\ req.attempt >= 1
               /\ ReportAttempt(req, TRUE, TRUE))
              => IF req.status \in {"running", "success", "fail", "dead"}
                 THEN /\ resp'.code = 200
                      /\ BagCardinality(attempts') = BagCardinality(attempts) + 1
                 ELSE /\ resp'.code = 400
                      /\ attempts' = attempts
                      /\ tasks' = tasks]_vars

-----------------------------------------------------------------------------
(* Heartbeats *)

\* C23: a worker process inside Run has sent its first heartbeat by the time
\* a handler runs, and by the time Run has returned; handlers do not delay it.
C23_WorkerHeartbeats ==
    (inv.pc = "handler" \/ run.pc = "returned") => Len(hb.sends) >= 1

\* The ticks the loop has taken out of ticker.C
TicksTaken == hb.fired - hb.tick

\* C24 as stated: after Start one heartbeat is sent at once and then exactly
\* one per tick until the context is cancelled or Stop is called, none
\* after that; a failed heartbeat does not end the loop.
C24_OnePerTickUntilStopped ==
    /\ hb.pc = "select" => Len(hb.sends) = 1 + TicksTaken
    /\ hb.pc = "send" => Len(hb.sends) = TicksTaken
    /\ hb.pc = "done" => hb.stopped \/ hb.ctx = "cancelled"
    /\ \A i \in 2..Len(hb.sends) : ~hb.sends[i].late

\* C24, amended: after Start one heartbeat is sent at once and then exactly
\* one for every tick the loop takes, whether heartbeats failed or not; the
\* loop ends only when the context is cancelled or Stop was called, and a
\* tick that is ready together with the cancellation or the Stop may still
\* be answered with a heartbeat.
C24_HeartbeatLoop ==
    /\ hb.pc = "select" => Len(hb.sends) = 1 + TicksTaken
    /\ hb.pc = "send" => Len(hb.sends) = TicksTaken
    /\ hb.pc = "done" /\ Len(hb.sends) > 0 => Len(hb.sends) = 1 + TicksTaken
    /\ hb.pc = "done" => hb.stopped \/ hb.ctx = "cancelled"
    /\ hb.pc = "done" /\ Len(hb.sends) = 0 => hb.stopped

\* A heartbeat failed and the next tick was answered all the same
C24_Witness ==
    /\ hb.pc = "select"
    /\ ~hb.stopped
    /\ hb.ctx = "live"
    /\ Len(hb.sends) = 3
    /\ ~hb.sends[2].ok
    /\ hb.sends[3].ok

\* What an accepted config must look like once stored, group by group
Defaulted(given, kept) ==
    /\ Len(kept.QueueGroups) = Len(given.QueueGroups)
    /\ \A i \in 1..Len(given.QueueGroups) :
          /\ DOMAIN given.QueueGroups[i].Priorities = {} =>
                /\ DOMAIN kept.QueueGroups[i].Priorities =
                      {PriorityCritical, PriorityDefault, PriorityLow}
                /\ kept.QueueGroups[i].Priorities[PriorityCritical] = 50
                /\ kept.QueueGroups[i].Priorities[PriorityDefault] = 30
                /\ kept.QueueGroups[i].Priorities[PriorityLow] = 10
          /\ given.QueueGroups[i].Concurrency <= 0 =>
                kept.QueueGroups[i].Concurrency = 10

\* C25: every config that Upsert accepts is stored, and returned, with
\* {critical:50, default:30, low:10} in each queue group that came with no
\* priorities and with concurrency 10 in each group that came with a
\* concurrency of 0 or less.
C25_UpsertFillsGroupDefaults ==
    [][resp'.op = "CreateWorker" /\ resp'.code \in {200, 500} =>
         \A c \in RegistryConfigs, dbOk \in BOOLEAN :
            CreateWorker(c, dbOk) =>
               /\ TrimSpace(c.WorkerName) \in DOMAIN items'
               /\ Defaulted(c, items'[TrimSpace(c.WorkerName)])
               /\ dbOk => Defaulted(c, got'.item)]_vars

C25_Witness ==
    /\ resp.op = "CreateWorker"
    /\ resp.code = 200
    /\ W1 \in DOMAIN items
    /\ items[W1] = got.item
    /\ Len(got.item.QueueGroups) = 2
    /\ got.item.QueueGroups[1].Concurrency = 5
    /\ got.item.QueueGroups[1].Priorities = (PriorityCritical :> 7)
    /\ got.item.QueueGroups[2].Concurrency = 10
    /\ got.item.QueueGroups[2].Priorities = DefaultPriorities

\* C26: an Upsert of a config with an empty worker_name, with no queue
\* group, or with a queue group whose name is empty is refused with a
\* validation error, and a refused Upsert leaves the registry (and the
\* worker table) exactly as it was.
C26_UpsertValidates ==
    [][resp'.op = "CreateWorker" =>
         /\ \A c \in RegistryConfigs, dbOk \in BOOLEAN :
               (/\ CreateWorker(c, dbOk)
                /\ \/ c.WorkerName = <<>>
                   \/ c.QueueGroups = <<>>
                   \/ \E i \in 1..Len(c.QueueGroups) : c.QueueGroups[i].Name = <<>>)
               => resp'.code = 400
         /\ resp'.code = 400 => items' = items /\ workerRows' = workerRows]_vars

C26_Witness ==
    /\ resp.op = "CreateWorker"
    /\ resp.code = 400
    /\ got = NoResult
    /\ W1 \in DOMAIN items
    /\ Len(items[W1].QueueGroups) = 2
    /\ items # Persisted

\* C27: at every moment every config in the registry has at least one
\* queue group, every group name is non-empty and occurs once in that
\* worker, every group has at least one priority, and every group's
\* concurrency is greater than 0.
C27_RegistryConfigsWellFormed ==
    \A w \in DOMAIN items :
       LET groups == items[w].QueueGroups
       IN  /\ Len(groups) >= 1
           /\ \A i \in 1..Len(groups) :
                 /\ groups[i].Name # <<>>
                 /\ DOMAIN groups[i].Priorities # {}
                 /\ groups[i].Concurrency > 0
           /\ \A i, j \in 1..Len(groups) : groups[i].Name = groups[j].Name => i = j

\* The row an accepted config becomes: every field is the given one or its
\* default, nothing is taken from the row that was there before
WholeRow(given, row) ==
    /\ row.WorkerName = TrimSpace(given.WorkerName)
    /\ row.IsEnabled = given.IsEnabled
    /\ row.LastHeartbeatAt = given.LastHeartbeatAt
    /\ row.DefaultRetryCount = IF given.DefaultRetryCount <= 0 THEN 3
                                ELSE given.DefaultRetryCount
    /\ row.DefaultTimeout = IF given.DefaultTimeout <= 0 THEN 30 ELSE given.DefaultTimeout
    /\ row.DefaultDelay = IF given.DefaultDelay < 0 THEN 0 ELSE given.DefaultDelay
    /\ Defaulted(given, row)
    /\ \A i \in 1..Len(given.QueueGroups) :
          /\ row.QueueGroups[i].Name = given.QueueGroups[i].Name
          /\ given.QueueGroups[i].Concurrency > 0 =>
                row.QueueGroups[i].Concurrency = given.QueueGroups[i].Concurrency
          /\ DOMAIN given.QueueGroups[i].Priorities # {} =>
                row.QueueGroups[i].Priorities = given.QueueGroups[i].Priorities

\* C28: a successful Upsert replaces the whole row of that worker_name in
\* one step and touches no other row; what Get and List return is, row by
\* row, exactly a row of the registry, so the Get that follows an Upsert
\* returns the upserted config and no reader sees a mixture of two rows.
C28_UpsertReplacesWholeRow ==
    [][/\ resp'.op = "CreateWorker" /\ resp'.code \in {200, 500} =>
            \A c \in RegistryConfigs, dbOk \in BOOLEAN :
               CreateWorker(c, dbOk) =>
                  /\ DOMAIN items' = DOMAIN items \cup {TrimSpace(c.WorkerName)}
                  /\ WholeRow(c, items'[TrimSpace(c.WorkerName)])
                  /\ \A w \in DOMAIN items \ {TrimSpace(c.WorkerName)} :
                        items'[w] = items[w]
                  /\ dbOk => got'.item = items'[TrimSpace(c.WorkerName)]
       /\ resp'.op = "Get" /\ resp'.code = 200 =>
            /\ got'.item.WorkerName \in DOMAIN items
            /\ got'.item = items[got'.item.WorkerName]
            /\ items' = items
       /\ resp'.op = "List" =>
            /\ Len(got'.items) = Cardinality(DOMAIN items)
            /\ \A i \in 1..Len(got'.items) :
                  /\ got'.items[i].WorkerName \in DOMAIN items
                  /\ got'.items[i] = items[got'.items[i].WorkerName]
            /\ items' = items]_vars

C28_Witness ==
    /\ resp.op = "Get"
    /\ resp.code = 200
    /\ got.item.WorkerName = W1
    /\ got.item = items[W1]
    /\ got.item # Persisted[W1]
    /\ Len(got.item.QueueGroups) = 2
    /\ got.item.QueueGroups[2].Name = Q2

\* C29: a heartbeat for a worker name that is not in the registry fails
\* with not-found (the error of the registry operation, 404 from the
\* endpoint; a name that is not a well-formed worker_name is refused with
\* 400 by the route's validation) and creates no entry for that name, in
\* the registry or in the worker table.
C29_UnknownHeartbeatFails ==
    [][resp'.op \in {"Heartbeat", "UpdateHeartbeat"} =>
         \A w \in WorkerNames :
            (w \notin DOMAIN items /\ (HeartbeatGet(w) \/ UpdateHeartbeat(w))) =>
               /\ resp'.code \in {400, 404}
               /\ WorkerNameRegex(w) => resp'.code = 404
               /\ items' = items /\ workerRows' = workerRows /\ beat' = beat]_vars

C29_Witness ==
    /\ resp.op = "Heartbeat"
    /\ resp.code = 404
    /\ impl = "router"
    /\ beat = NoBeat
    /\ W1 \notin DOMAIN items
    /\ W1 \in DOMAIN workerRows
    /\ workerRows[W1].LastHeartbeatAt = -1

RoutingKeys(queueGroup) ==
    {fullQueueName(W1, queueGroup, pr) : pr \in DOMAIN Declared[queueGroup]}

C32_StoredNamesConform ==
    /\ \A tbl \in {items, workerRows} : \A w \in DOMAIN tbl :
          /\ MatchClass(w, NameChars, 3, 64)
          /\ MatchClass(tbl[w].WorkerName, NameChars, 3, 64)
          /\ \A i \in 1..Len(tbl[w].QueueGroups) :
                MatchClass(tbl[w].QueueGroups[i].Name, NameChars, 1, 64)
    /\ \A t \in DOMAIN tasks :
          /\ MatchClass(t, TaskIDChars, 1, 128)
          /\ MatchClass(tasks[t].worker_name, NameChars, 3, 64)

\* C33: the heartbeat request is atomic with respect to the other writes
\* of the registry: the step that completes it adds no worker to the
\* registry (a worker deleted meanwhile stays deleted) and changes no field
\* of the worker's current config other than last_heartbeat_at.
C33_HeartbeatIsAtomic ==
    [][beat.pc = "got" /\ beat'.pc = "none" =>
         /\ DOMAIN items' = DOMAIN items
         /\ \A w \in DOMAIN items :
               items'[w] = [items[w] EXCEPT !.LastHeartbeatAt = items'[w].LastHeartbeatAt]]_vars

\* C34: CreateTask never overwrites a task row that exists: whatever
\* task_id the caller supplies, the status, last_attempt, last_error and
\* payload of every row of the task table are after the call what they
\* were before it.
C34_CreateTaskKeepsExistingRow ==
    [][resp'.op = "CreateTask" =>
         \A t \in DOMAIN tasks :
            /\ t \in DOMAIN tasks'
            /\ tasks'[t].status = tasks[t].status
            /\ tasks'[t].last_attempt = tasks[t].last_attempt
            /\ tasks'[t].last_error = tasks[t].last_error
            /\ tasks'[t].payload = tasks[t].payload]_vars

\* C35: once every register / create-or-update request that was made has
\* completed, and completed successfully, the worker table holds for every
\* worker of the registry exactly the config the registry holds.
C35_RegistryMirrored ==
    (flight.pending = {} /\ ~flight.failed) =>
        \A w \in DOMAIN items : w \in DOMAIN workerRows /\ workerRows[w] = items[w]

\* C36: once Run has received the termination signal or the first server
\* error it returns, given that the handler in progress returns and that
\* every goroutine is scheduled: no goroutine stays blocked in its send on
\* the error channel, however many servers fail.
C36_RunReturns == (run.pc = "shutdown") ~> (run.pc = "returned")

C36_Witness ==
    /\ run.pc = "returned"
    /\ run.err = "err"
    /\ \A g \in Groups : servers[g] = "failed"
    /\ Len(run.errChan) = 1

\* C37: ReportWithRetry calls the reporter at most MaxRetries+1 times, makes
\* no call after the first one that succeeded, and makes no call after a
\* backoff in which it saw the context cancelled: every call but the first
\* follows a backoff that ended no later than the cancellation, and a return
\* with the context's error follows a failed call with no call in between.
C37_BoundedCalls ==
    call.err.kind # "none"
    => /\ call.calls <= call.config.MaxRetries + 1
       /\ \A i \in 1..(call.calls - 1) : call.outcomes[i] = "e"
       /\ Len(call.waits) = IF call.calls = 0 THEN 0 ELSE call.calls - 1
       /\ \A k \in 2..call.calls : WaitEnd(call.config, k - 1) <= call.cancelAt
       /\ call.err.kind = "ctx"
            => /\ call.calls >= 1
               /\ call.calls <= call.config.MaxRetries
               /\ call.outcomes[call.calls] = "e"

\* The context is cancelled during the second backoff: two calls, no third
C37_Witness ==
    /\ call.config = DefaultReportRetryConfig
    /\ call.cancelAt = 2
    /\ call.err.kind = "ctx"
    /\ call.calls = 2
    /\ call.waits = <<1>>

\* b to the power e
RECURSIVE Power(_, _)
Power(b, e) == IF e = 0 THEN 1 ELSE b * Power(b, e - 1)

\* C38: for any ReportRetryConfig the wait before the k-th retry is
\* min(InitialBackoff * BackoffFactor^(k-1), MaxBackoff), so that no wait
\* exceeds MaxBackoff.
C38_BackoffSchedule ==
    \A k \in 1..Len(call.waits) :
        /\ call.waits[k] = Min(call.config.InitialBackoff
                                  * Power(call.config.BackoffFactor, k - 1),
                               call.config.MaxBackoff)
        /\ call.waits[k] <= call.config.MaxBackoff

\* The candidates of a batch retry request, as the wired implementation
\* collects them
Candidates(req) ==
    IF impl = "router" THEN RouterBatchCandidates(req) ELSE HandlerBatchCandidates(req)

\* The number of task rows that match the filter of a batch retry request
\* (the router reads an empty status as "fail")
Matching(req) ==
    LET status == IF impl = "router" /\ req.status = "" THEN "fail" ELSE req.status
    IN  Cardinality({id \in DOMAIN tasks :
            /\ req.worker_name = <<>> \/ tasks[id].worker_name = req.worker_name
            /\ status = "" \/ tasks[id].status = status})

\* C39: in filter mode a BatchRetry with limit L in 1..1000 considers
\* min(L, number of matching tasks) candidates, and at most 100 candidates
\* when the limit is absent or out of range.
C39_FilterModeLimit ==
    [][resp'.op = "BatchRetry" =>
          \A req \in ListInputs, f \in BatchFaults :
              BatchRetry(req, f[1], f[2])
              => IF req.limit \in 1..1000
                 THEN Len(Candidates(req)) = Min(req.limit, Matching(req))
                 ELSE Len(Candidates(req)) <= 100]_vars

\* C40: a WorkerConfig held in the registry changes only through registry
\* operations: a write to the queue-group list or to a priorities map of a
\* config that was passed to Upsert, or of a value Get, List or GetQueueGroup
\* returned, leaves what Get and List return as it was.
C40_RegistryIsolated ==
    [][items' # items => resp'.op = "Upsert"]_vars

====
